---- MODULE Spec2Model ----
(***************************************************************************)
(* Model of the ingestion - enrichment - persistence pipeline of the.Feed: *)
(* DataCollector (data_collector.py), ClaudeProcessor                      *)
(* (claude_processor.py), DataManager (data_manager.py) and the SQLite     *)
(* schema of utils.py.                                                     *)
(*                                                                         *)
(* Conventions.  A Python dict is a function whose DOMAIN is the set of    *)
(* keys that are present.  A text is a sequence of one-character strings,  *)
(* '' is << >> and None is NoneText.  A url is the sequence of its         *)
(* '/'-separated segments, '' is << "" >> and None is NoUrl.  Tables are   *)
(* sets of rows; the uniqueness constraints of the schema are enforced by  *)
(* the statements, not by the representation.                              *)
(***************************************************************************)
EXTENDS Integers, Sequences, FiniteSets, TLC

VARIABLES
    config,           \* DataCollector.config and the credentials read at construction
    clock,            \* the wall clock read by get_timestamp()
    items,            \* committed rows of table items
    source_metadata,  \* committed rows of table source_metadata
    feed,             \* upstream: entries of each RSS feed, newest first
    pc,               \* position of the refresh cycle
    kidx,             \* index in Kinds of the source kind being handled
    fidx,             \* index of the feed being handled by collect_company_blogs
    iidx,             \* index of the item being upserted
    raw,              \* upstream responses received in this cycle, per kind
    fault,            \* kinds whose collector logged an error in this cycle
    blog_posts,       \* local list blog_posts of collect_company_blogs
    data,             \* raw_data_collection of refresh_data
    batch,            \* processed_items of the kind being upserted
    txn,              \* the write transaction of refresh_data: open, and the rows it sees
    skipped,          \* <<kind index, item index>> of upserts that raised IntegrityError
    result,           \* what the last refresh_data call gave its caller
    wmAtStart,        \* source_metadata when the running cycle started
    flagOps,          \* number of update_item_flags calls so far
    enKey,            \* ClaudeProcessor.api_key is set (enrichment harness)
    enIn,             \* input list of batch_process (enrichment harness)
    enOut,            \* list returned by batch_process (enrichment harness)
    enLog,            \* per item, the remote calls and pauses batch_process made
    enPc,             \* position of the enrichment harness
    apiScan,          \* ids of table items in rowid order (query harness)
    apiOp,            \* the last DataManager call of the dashboard, with its arguments
    apiRows,          \* the list that call returned
    apiFlag,          \* the boolean that call returned
    apiMeta,          \* the metadata record that call returned
    inflight,         \* per caller of refresh_data: where it is in the call
    writeLock,        \* the caller whose connection holds the write lock of the database
    fnIn,             \* arguments of the function called (function harness)
    fnOut             \* what it returned (function harness)

vars == <<config, clock, items, source_metadata, feed, pc, kidx, fidx, iidx, raw,
          fault, blog_posts, data, batch, txn, skipped, result, wmAtStart, flagOps,
          enKey, enIn, enOut, enLog, enPc, apiScan, apiOp, apiRows, apiFlag, apiMeta,
          inflight, writeLock, fnIn, fnOut>>

pipeVars == <<config, clock, items, source_metadata, feed, pc, kidx, fidx, iidx, raw,
              fault, blog_posts, data, batch, txn, skipped, result, wmAtStart, flagOps>>

enVars == <<enKey, enIn, enOut, enLog, enPc>>

apiVars == <<apiScan, apiOp, apiRows, apiFlag, apiMeta>>

refVars == <<inflight, writeLock>>

fnVars == <<fnIn, fnOut>>

----------------------------------------------------------------------------
(* Bounds *)

MaxCycles == 2        \* refresh cycles started in one behaviour
MaxEntries == 2       \* entries published by one feed
MaxFlagOps == 1       \* update_item_flags calls in one behaviour
MaxEnrichBatch == 2   \* length of the list given to batch_process
MaxRows == 3          \* rows of the items table when the read methods are called
MaxPageSize == 2      \* items per page of the paginated fetch (ITEMS_PER_PAGE is 10)
MaxPage == 2          \* highest page number requested
MaxUpserts == 2       \* items one caller of refresh_data upserts in one cycle
MaxBatchLen == 2      \* items of one source kind when the upsert order is varied
MaxTextLen == 4       \* length of the texts, and the max_length, given to truncate_text
MaxFeedLen == 3       \* entries of the feed given to one pass of collect_company_blogs

----------------------------------------------------------------------------
(* Python values *)

NoneText == << "None" >>
NoUrl == << >>
EmptyUrl == << "" >>

Min(a, b) == IF a < b THEN a ELSE b

\* {}
EmptyDict == [x \in {} |-> 0]

\* dict.get(k, default)
Get(d, k, default) == IF k \in DOMAIN d THEN d[k] ELSE default

\* d[k] = v
Put(d, k, v) == [x \in DOMAIN d \cup {k} |-> IF x = k THEN v ELSE d[x]]

\* truthiness of a text
Truthy(t) == t # NoneText /\ t # << >>

\* a or b
Or(a, b) == IF Truthy(a) THEN a ELSE b

\* s.split('/')[-1]
LastSegment(u) == u[Len(u)]

Ellipsis == << ".", ".", "." >>

\* text[:n]
Prefix(t, n) == SubSeq(t, 1, Min(n, Len(t)))

truncate_text(text, max_length) ==
    IF ~Truthy(text) \/ Len(text) <= max_length
    THEN text
    ELSE Prefix(text, max_length) \o Ellipsis

RECURSIVE LStrip(_)
LStrip(t) == IF t # << >> /\ Head(t) = " " THEN LStrip(SubSeq(t, 2, Len(t))) ELSE t

RECURSIVE RStrip(_)
RStrip(t) == IF t # << >> /\ t[Len(t)] = " " THEN RStrip(SubSeq(t, 1, Len(t) - 1)) ELSE t

\* str.strip()
Strip(t) == RStrip(LStrip(t))

----------------------------------------------------------------------------
(* ClaudeProcessor.  The answer of the remote model is an input: for every *)
(* item an oracle record gives the outcome of the categorisation call      *)
(* (cat), of the summary call made inside categorize_content or            *)
(* _set_default_analysis (sum) and of the summary call made by             *)
(* batch_process itself (sum2).                                            *)

SummaryMaxLength == 150

Uncategorized == << "Uncategorized" >>

\* the text categorize_content and _set_default_analysis work on
ContentToAnalyze(item) ==
    Or(Get(item, "full_content_for_analysis", NoneText),
       Or(Get(item, "description", NoneText), Get(item, "abstract", << >>)))

NeedsSummary(item) == "summary" \notin DOMAIN item \/ ~Truthy(item["summary"])

generate_summary(text, max_length, o) ==
    IF ~Truthy(text) THEN << >>
    ELSE IF o.kind = "text" THEN Prefix(Strip(o.text), max_length)
    ELSE truncate_text(text, max_length)

_set_default_analysis(item, osum) ==
    LET i1 == Put(item, "categories", Get(item, "categories", Uncategorized))
        i2 == Put(i1, "importance_score", Get(item, "importance_score", 3))
        i3 == Put(i2, "keywords", Get(item, "keywords", << >>))
    IN IF NeedsSummary(i3)
       THEN Put(i3, "summary", generate_summary(ContentToAnalyze(i3), SummaryMaxLength, osum))
       ELSE i3

categorize_content(item, o) ==
    IF o.cat.kind = "json"
    THEN LET analysis_data == o.cat.data
             i1 == Put(item, "categories", Get(analysis_data, "categories", Uncategorized))
             i2 == Put(i1, "importance_score", Get(analysis_data, "importance_score", 5))
             i3 == Put(i2, "keywords", Get(analysis_data, "keywords", << >>))
             claude_summary == Get(analysis_data, "suggested_short_summary", NoneText)
         IN IF Truthy(claude_summary) THEN Put(i3, "summary", claude_summary)
            ELSE IF NeedsSummary(i3)
                 THEN Put(i3, "summary",
                          generate_summary(ContentToAnalyze(item), SummaryMaxLength, o.sum))
                 ELSE i3
    ELSE _set_default_analysis(item, o.sum)

\* sensitivity check: a fallback that keeps what the collector supplied
ProcessKeepingSupplied(item) ==
    LET content_to_summarize == Get(item, "description", Get(item, "abstract", << >>))
        i1 == Put(item, "summary", truncate_text(content_to_summarize, SummaryMaxLength))
        i2 == Put(i1, "categories", Get(item, "categories", Uncategorized))
        i3 == Put(i2, "importance_score", Get(item, "importance_score", 5))
    IN Put(i3, "keywords", << >>)

\* one iteration of the loop of batch_process when no API key is set
ProcessWithoutKey(item) ==
    LET content_to_summarize == Get(item, "description", Get(item, "abstract", << >>))
        i1 == Put(item, "summary", truncate_text(content_to_summarize, SummaryMaxLength))
        i2 == Put(i1, "categories", Uncategorized)
        i3 == Put(i2, "importance_score", 5)
    IN Put(i3, "keywords", << >>)

\* one iteration of the loop of batch_process when the API key is set
ProcessWithKey(item, o) ==
    LET content_for_analysis ==
            Or(Get(item, "full_text_content", NoneText),
               Or(Get(item, "description", NoneText), Get(item, "abstract", << >>)))
        i1 == Put(item, "full_content_for_analysis", content_for_analysis)
        i2 == categorize_content(i1, o)
    IN IF NeedsSummary(i2)
       THEN Put(i2, "summary", generate_summary(content_for_analysis, SummaryMaxLength, o.sum2))
       ELSE i2

batch_process(its, api_key, oracle) ==
    [k \in 1..Len(its) |->
        IF ~api_key THEN ProcessWithoutKey(its[k]) ELSE ProcessWithKey(its[k], oracle[k])]

(* What batch_process does besides computing its result: the calls of     *)
(* client.messages.create with their outcome, and the time.sleep pauses.   *)

Call(op, o) == [op |-> op, answer |-> o.kind]

Pause == [op |-> "sleep", answer |-> "none"]

generate_summary_events(text, o) ==
    IF ~Truthy(text) THEN << >>
    ELSE << Call("summarize", o) >> \o (IF o.kind = "rate" THEN << Pause >> ELSE << >>)

_set_default_analysis_events(item, osum) ==
    IF NeedsSummary(item)
    THEN generate_summary_events(ContentToAnalyze(item), osum)
    ELSE << >>

categorize_content_events(item, o) ==
    << Call("categorize", o.cat) >> \o
        (IF o.cat.kind = "json"
         THEN IF Truthy(Get(o.cat.data, "suggested_short_summary", NoneText)) THEN << >>
              ELSE IF NeedsSummary(item)
                   THEN generate_summary_events(ContentToAnalyze(item), o.sum)
                   ELSE << >>
         ELSE (IF o.cat.kind = "rate" THEN << Pause >> ELSE << >>)
                  \o _set_default_analysis_events(item, o.sum))

ProcessWithKeyEvents(item, o) ==
    LET content_for_analysis ==
            Or(Get(item, "full_text_content", NoneText),
               Or(Get(item, "description", NoneText), Get(item, "abstract", << >>)))
        i1 == Put(item, "full_content_for_analysis", content_for_analysis)
        i2 == categorize_content(i1, o)
    IN categorize_content_events(i1, o) \o
           (IF NeedsSummary(i2)
            THEN generate_summary_events(content_for_analysis, o.sum2)
            ELSE << >>)

batch_process_events(its, api_key, oracle) ==
    [k \in 1..Len(its) |-> IF ~api_key THEN << >> ELSE ProcessWithKeyEvents(its[k], oracle[k])]

----------------------------------------------------------------------------
(* The store: tables items and source_metadata of initialize_db.           *)

NoTxn == [open |-> FALSE, rows |-> {}]

\* the 20-tuple of _item_to_db_format, restricted to the columns the model
\* keeps (authors, thumbnail, channel, raw_data and the two timestamps carry
\* no decision of the pipeline or of the queries)
_item_to_db_format(item, source_key, content_type_val) ==
    [id               |-> Get(item, "id", "None"),
     title            |-> Get(item, "title", "None"),
     url              |-> Get(item, "url", NoUrl),
     source           |-> Get(item, "source", "None"),
     source_type      |-> source_key,
     content_type     |-> content_type_val,
     description      |-> Or(Get(item, "description", NoneText), Get(item, "abstract", NoneText)),
     summary          |-> Get(item, "summary", NoneText),
     published        |-> Get(item, "published", NoneText),
     categories       |-> Get(item, "categories", << >>),
     keywords         |-> Get(item, "keywords", << >>),
     importance_score |-> Get(item, "importance_score", 5),
     bookmarked       |-> Get(item, "bookmarked", 0),
     is_read          |-> Get(item, "is_read", 0)]

\* url TEXT UNIQUE: NULLs never collide
UrlTaken(tbl, u) == u # NoUrl /\ \E r \in tbl : r.url = u

\* sensitivity check: a SET list that also names bookmarked and is_read
ConflictUpdateAllColumns(old, excluded) == excluded

\* ON CONFLICT(id) DO UPDATE SET ...: every column but id, bookmarked, is_read
ConflictUpdate(old, excluded) ==
    [excluded EXCEPT !.bookmarked = old.bookmarked, !.is_read = old.is_read]

\* sensitivity check: a plain INSERT into a table without constraints
InsertItem(tbl, d) == [ok |-> TRUE, tbl |-> tbl \cup {d}]

\* sensitivity check: INSERT OR REPLACE, which deletes every conflicting row
InsertOrReplaceItem(tbl, d) ==
    [ok  |-> TRUE,
     tbl |-> {r \in tbl : r.id # d.id /\ ~(d.url # NoUrl /\ r.url = d.url)} \cup {d}]

\* INSERT INTO items ... ON CONFLICT(id) DO UPDATE SET ...
\* ok = FALSE is sqlite3.IntegrityError; the failed statement changes nothing
UpsertItem(tbl, d) ==
    IF \E r \in tbl : r.id = d.id
    THEN LET old == CHOOSE r \in tbl : r.id = d.id
             rest == tbl \ {old}
         IN IF UrlTaken(rest, d.url)
            THEN [ok |-> FALSE, tbl |-> tbl]
            ELSE [ok |-> TRUE, tbl |-> rest \cup {ConflictUpdate(old, d)}]
    ELSE IF UrlTaken(tbl, d.url)
         THEN [ok |-> FALSE, tbl |-> tbl]
         ELSE [ok |-> TRUE, tbl |-> tbl \cup {d}]

\* UPDATE items SET <supplied flags> WHERE id = ?
FlagValue(v) == IF v = "True" THEN 1 ELSE 0

\* sensitivity check: an UPDATE that always sets both flags, an absent one to 0
SetBothFlags(tbl, item_id, bookmarked, is_read) ==
    {IF r.id = item_id
     THEN [r EXCEPT !.bookmarked = FlagValue(bookmarked), !.is_read = FlagValue(is_read)]
     ELSE r : r \in tbl}

SetFlags(tbl, item_id, bookmarked, is_read) ==
    {IF r.id = item_id
     THEN [r EXCEPT !.bookmarked = IF bookmarked # "None" THEN FlagValue(bookmarked) ELSE @,
                    !.is_read = IF is_read # "None" THEN FlagValue(is_read) ELSE @]
     ELSE r : r \in tbl}

\* update_item_flags: the table afterwards and the value returned
update_item_flags(tbl, item_id, bookmarked, is_read) ==
    IF bookmarked = "None" /\ is_read = "None"
    THEN [tbl |-> tbl, ret |-> FALSE]
    ELSE [tbl |-> SetFlags(tbl, item_id, bookmarked, is_read),
          ret |-> \E r \in tbl : r.id = item_id]

\* get_source_fetch_metadata: the row of the feed, or None
NoMetadata == [source_id |-> "None", last_successful_fetch |-> 0, last_item_id |-> NoUrl]

get_source_fetch_metadata(tbl, source_id) ==
    IF \E m \in tbl : m.source_id = source_id
    THEN CHOOSE m \in tbl : m.source_id = source_id
    ELSE NoMetadata

\* sensitivity check: a plain INSERT into a table without a primary key
InsertMetadata(tbl, source_id, last_successful_fetch, last_item_id) ==
    tbl \cup {[source_id |-> source_id,
               last_successful_fetch |-> last_successful_fetch,
               last_item_id |-> last_item_id]}

\* INSERT INTO source_metadata ... ON CONFLICT(source_id) DO UPDATE SET ...
update_source_fetch_metadata(tbl, source_id, last_successful_fetch, last_item_id) ==
    {m \in tbl : m.source_id # source_id}
        \cup {[source_id |-> source_id,
               last_successful_fetch |-> last_successful_fetch,
               last_item_id |-> last_item_id]}

----------------------------------------------------------------------------
(* The queries of DataManager.  A table is read as the sequence of its     *)
(* rows in rowid order.  Text columns are compared as SQLite compares      *)
(* them: ORDER BY by the codes of the characters (BINARY collation), LIKE  *)
(* without regard to the case of ASCII letters, with _ for one character   *)
(* and % for any run of characters.                                        *)

UpperCase == << "A", "B", "C", "D", "E", "F", "G", "H", "I", "J", "K", "L", "M",
                "N", "O", "P", "Q", "R", "S", "T", "U", "V", "W", "X", "Y", "Z" >>
LowerCase == << "a", "b", "c", "d", "e", "f", "g", "h", "i", "j", "k", "l", "m",
                "n", "o", "p", "q", "r", "s", "t", "u", "v", "w", "x", "y", "z" >>

\* LOWER() and the case folding of LIKE: ASCII letters only
SqlLowerChar(c) ==
    IF \E k \in 1..26 : UpperCase[k] = c
    THEN LowerCase[CHOOSE k \in 1..26 : UpperCase[k] = c]
    ELSE c

SqlLower(t) == [k \in 1..Len(t) |-> SqlLowerChar(t[k])]

\* str.lower(): every cased letter
PyLowerChar(c) == IF c = "É" THEN "é" ELSE SqlLowerChar(c)

PyLower(t) == [k \in 1..Len(t) |-> PyLowerChar(t[k])]

\* text LIKE pattern
RECURSIVE Like(_, _)
Like(t, pattern) ==
    IF pattern = << >> THEN t = << >>
    ELSE IF Head(pattern) = "%"
         THEN \E k \in 0..Len(t) : Like(SubSeq(t, k + 1, Len(t)), Tail(pattern))
         ELSE /\ t # << >>
              /\ Head(pattern) = "_" \/ SqlLowerChar(Head(pattern)) = SqlLowerChar(Head(t))
              /\ Like(Tail(t), Tail(pattern))

\* column LIKE pattern, NULL LIKE pattern being NULL
ColumnLike(col, pattern) == col # NoneText /\ Like(col, pattern)

\* json.dumps of one character of a string (ensure_ascii)
JsonChar(c) ==
    CASE c = "é" -> << "\\", "u", "0", "0", "e", "9" >>
      [] c = "É" -> << "\\", "u", "0", "0", "c", "9" >>
      [] c = "\"" -> << "\\", "\"" >>
      [] OTHER -> << c >>

RECURSIVE JsonString(_)
JsonString(t) == IF t = << >> THEN << >> ELSE JsonChar(Head(t)) \o JsonString(Tail(t))

RECURSIVE JsonElements(_)
JsonElements(xs) ==
    IF xs = << >> THEN << >>
    ELSE << "\"" >> \o JsonString(Head(xs)) \o << "\"" >>
             \o (IF Len(xs) > 1 THEN << ",", " " >> ELSE << >>) \o JsonElements(Tail(xs))

\* json.dumps of a list of strings: the text kept in categories and keywords
json_dumps(xs) == << "[" >> \o JsonElements(xs) \o << "]" >>

\* code of a character of a published text
CharCode(c) ==
    CASE c = " " -> 32 [] c = "0" -> 48 [] c = "1" -> 49 [] c = "6" -> 54
      [] c = "M" -> 77 [] c = "W" -> 87 [] OTHER -> 63

\* a < b for two texts
RECURSIVE TextLess(_, _)
TextLess(a, b) ==
    IF b = << >> THEN FALSE
    ELSE IF a = << >> THEN TRUE
    ELSE IF CharCode(Head(a)) # CharCode(Head(b)) THEN CharCode(Head(a)) < CharCode(Head(b))
    ELSE TextLess(Tail(a), Tail(b))

\* a < b for two values of column published, NULL below every text
PublishedLess(a, b) ==
    IF b = NoneText THEN FALSE
    ELSE IF a = NoneText THEN TRUE
    ELSE TextLess(a, b)

\* row a sorts before row b under ORDER BY importance_score DESC, published DESC
SortsBefore(a, b) ==
    \/ a.importance_score > b.importance_score
    \/ a.importance_score = b.importance_score /\ PublishedLess(b.published, a.published)

\* r put into a sorted list behind the rows it does not sort before
RECURSIVE InsertSorted(_, _)
InsertSorted(r, sorted) ==
    IF sorted = << >> THEN << r >>
    ELSE IF SortsBefore(r, Head(sorted)) THEN << r >> \o sorted
    ELSE << Head(sorted) >> \o InsertSorted(r, Tail(sorted))

\* ORDER BY: rows with equal keys stay in scan order
RECURSIVE OrderBy(_)
OrderBy(rows) ==
    IF rows = << >> THEN << >>
    ELSE InsertSorted(rows[Len(rows)], OrderBy(SubSeq(rows, 1, Len(rows) - 1)))

\* LIMIT ? OFFSET ?
LimitOffset(rows, limit, offset) ==
    SubSeq(rows, offset + 1, Min(Len(rows), offset + limit))

\* sensitivity check: a strict comparison, importance_score > ?
MinImportanceStrict(filters, r) ==
    LET min_importance == Get(filters, "min_importance", 0)
    IN min_importance = 0 \/ r.importance_score > min_importance

\* filters.get("min_importance") adds AND importance_score >= ?
MinImportanceClause(filters, r) ==
    LET min_importance == Get(filters, "min_importance", 0)
    IN min_importance = 0 \/ r.importance_score >= min_importance

\* sensitivity check: the pattern '%topic%', without the quotes of the JSON text
TopicsSubstring(filters, r) ==
    LET topics == Get(filters, "topics", << >>)
    IN topics = << >> \/
       \E k \in 1..Len(topics) :
           ColumnLike(json_dumps(r.categories), << "%" >> \o topics[k] \o << "%" >>)

\* filters.get("topics") adds AND (categories LIKE ? OR ...), one '%"topic"%' each
TopicsClause(filters, r) ==
    LET topics == Get(filters, "topics", << >>)
    IN topics = << >> \/
       \E k \in 1..Len(topics) :
           ColumnLike(json_dumps(r.categories), << "%", "\"" >> \o topics[k] \o << "\"", "%" >>)

get_data_by_type(table, content_type, limit, offset, filters) ==
    LET Where(r) == /\ r.content_type = content_type
                    /\ MinImportanceClause(filters, r)
                    /\ TopicsClause(filters, r)
    IN LimitOffset(OrderBy(SelectSeq(table, Where)), limit, offset)

\* filters.get("sources") adds AND source_type IN (...)
SourcesClause(filters, r) ==
    LET sources == Get(filters, "sources", << >>)
    IN sources = << >> \/ \E k \in 1..Len(sources) : r.source_type = sources[k]

search_all_data(table, search_query, limit, offset, filters) ==
    LET query_param == << "%" >> \o PyLower(search_query) \o << "%" >>
        Matches(col) == col # NoneText /\ Like(SqlLower(col), query_param)
        Where(r) == /\ \/ Matches(r.title) \/ Matches(r.description) \/ Matches(r.summary)
                       \/ Matches(json_dumps(r.keywords)) \/ Matches(json_dumps(r.categories))
                    /\ MinImportanceClause(filters, r)
                    /\ SourcesClause(filters, r)
    IN LimitOffset(OrderBy(SelectSeq(table, Where)), limit, offset)

get_bookmarked_items(table, limit, offset) ==
    LET Where(r) == r.bookmarked = 1
    IN LimitOffset(OrderBy(SelectSeq(table, Where)), limit, offset)

----------------------------------------------------------------------------
(* DataCollector: what each collector makes of the upstream response.      *)
(* A response is [err, results]: err is a failing API call, results the    *)
(* entries received.  An entry with bad = TRUE is one whose conversion     *)
(* raises (a missing snippet.thumbnails.high, an article whose url is      *)
(* null, a result page that fails while search.results() is iterated).     *)

Kinds == << "arxiv_papers", "news_articles", "youtube_videos", "blog_posts" >>

Desc == << "d" >>

WatchSegment(video_id) ==
    CASE video_id = "v1" -> "watch?v=v1"
      [] video_id = "v2" -> "watch?v=v2"
      [] OTHER -> "watch?v="

\* f"https://www.youtube.com/watch?v={video_id}"
WatchUrl(video_id) == << "www.youtube.com", WatchSegment(video_id) >>

ArxivPaper(r) ==
    [id         |-> LastSegment(r.entry_id),
     title      |-> r.title,
     abstract   |-> r.summary,
     url        |-> r.pdf_url,
     published  |-> r.published,
     categories |-> << "cs.AI" >>,
     source     |-> "arxiv",
     type       |-> "paper"]

NewsArticle(a) ==
    [id          |-> LastSegment(a.url),
     title       |-> a.title,
     description |-> IF Truthy(a.description) THEN truncate_text(a.description, 300) ELSE << >>,
     url         |-> a.url,
     published   |-> Get(a, "publishedAt", << >>),
     source      |-> "newsapi",
     type        |-> "news"]

YoutubeVideo(v) ==
    [id          |-> v.videoId,
     title       |-> v.title,
     description |-> v.description,
     url         |-> WatchUrl(v.videoId),
     published   |-> v.publishedAt,
     source      |-> "youtube",
     type        |-> "video"]

\* the list a collector builds when nothing raises
RECURSIVE MapSeq(_, _)
MapSeq(Op(_), xs) == IF xs = << >> THEN << >> ELSE << Op(Head(xs)) >> \o MapSeq(Op, Tail(xs))

RECURSIVE SelectRelevant(_)
SelectRelevant(xs) ==
    IF xs = << >> THEN << >>
    ELSE (IF Head(xs).relevant THEN << Head(xs) >> ELSE << >>) \o SelectRelevant(Tail(xs))

Raises(xs) == \E k \in 1..Len(xs) : xs[k].bad

\* try: ... return papers / except Exception: return []
collect_arxiv_papers(resp) ==
    IF resp.err \/ Raises(resp.results)
    THEN [error |-> TRUE, list |-> << >>]
    ELSE [error |-> FALSE, list |-> MapSeq(ArxivPaper, resp.results)]

collect_news_articles(resp) ==
    IF resp.err \/ Raises(resp.results)
    THEN [error |-> TRUE, list |-> << >>]
    ELSE [error |-> FALSE, list |-> MapSeq(NewsArticle, resp.results)]

\* only the videos that match a keyword are converted
collect_youtube_videos(resp) ==
    IF resp.err \/ Raises(SelectRelevant(resp.results))
    THEN [error |-> TRUE, list |-> << >>]
    ELSE [error |-> FALSE, list |-> MapSeq(YoutubeVideo, SelectRelevant(resp.results))]

(* collect_company_blogs, one feed *)

\* entry.get('id', entry.get('link'))
EntryId(entry) == Get(entry, "id", Get(entry, "link", NoUrl))

\* sensitivity check: the last entry scanned becomes the newest of the run
LastScanned(newest, current_entry_id) == current_entry_id

\* lines 344-345: the first entry kept is the newest of the run
NewestUpdate(newest, current_entry_id) ==
    IF newest = NoUrl THEN current_entry_id ELSE newest

\* lines 338-345: walk the feed until the last seen entry
RECURSIVE ScanEntries(_, _, _, _)
ScanEntries(entries, k, last_seen_entry_id, acc) ==
    IF k > Len(entries) THEN acc
    ELSE LET current_entry_id == EntryId(entries[k])
         IN IF current_entry_id = last_seen_entry_id THEN acc
            ELSE ScanEntries(entries, k + 1, last_seen_entry_id,
                     [entries_to_process |-> Append(acc.entries_to_process, entries[k]),
                      newest |-> NewestUpdate(acc.newest, current_entry_id)])

\* line 348: entries_to_process[:max_results // len(feeds)]
CapEntries(entries_to_process, max_results, nfeeds) ==
    SubSeq(entries_to_process, 1, Min(Len(entries_to_process), max_results \div nfeeds))

BlogPost(entry) ==
    [id          |-> LastSegment(Get(entry, "id", Get(entry, "link", EmptyUrl))),
     title       |-> Get(entry, "title", ""),
     description |-> truncate_text(Get(entry, "summary", << >>), 300),
     url         |-> Get(entry, "link", EmptyUrl),
     published   |-> Get(entry, "published", << >>),
     source      |-> entry.feed,
     type        |-> "blog"]

\* what one pass over a feed computes before it touches the store
FeedPass(entries, metadata, max_results, nfeeds) ==
    LET last_seen_entry_id == IF metadata = NoMetadata THEN NoUrl ELSE metadata.last_item_id
        scan == ScanEntries(entries, 1, last_seen_entry_id,
                            [entries_to_process |-> << >>, newest |-> NoUrl])
        capped == CapEntries(scan.entries_to_process, max_results, nfeeds)
    IN [raises |-> Raises(capped),
        posts  |-> IF Raises(capped) THEN << >> ELSE MapSeq(BlogPost, capped),
        newest_entry_this_run_id |-> scan.newest]

----------------------------------------------------------------------------
(* The environment: configuration, upstream responses, feed entries and    *)
(* the answers of the remote model, each drawn from a small set.           *)

FeedIds == {"F1", "F2"}

\* arxiv, news and youtube enabled with their keys, no enrichment credential
PipelineConfig ==
    [arxiv |-> TRUE, news |-> TRUE, youtube |-> TRUE, company_blogs |-> FALSE,
     news_api_key |-> TRUE, youtube_api_key |-> TRUE, anthropic_api_key |-> FALSE,
     feeds |-> << >>, max_results |-> 4]

\* arxiv alone, enriched by the remote model
EnrichedConfig ==
    [arxiv |-> TRUE, news |-> FALSE, youtube |-> FALSE, company_blogs |-> FALSE,
     news_api_key |-> TRUE, youtube_api_key |-> FALSE, anthropic_api_key |-> TRUE,
     feeds |-> << >>, max_results |-> 4]

\* company_blogs with two feeds, with or without youtube; no news key, no
\* enrichment credential
BlogConfig(max_results, youtube) ==
    [arxiv |-> FALSE, news |-> TRUE, youtube |-> youtube, company_blogs |-> TRUE,
     news_api_key |-> FALSE, youtube_api_key |-> TRUE, anthropic_api_key |-> FALSE,
     feeds |-> << "F1", "F2" >>, max_results |-> max_results]

\* max_results 1, 2, 4 over two feeds: a per-feed share of 0, 1, 2 entries
Configs ==
    {PipelineConfig, EnrichedConfig,
     BlogConfig(1, FALSE), BlogConfig(2, FALSE), BlogConfig(4, TRUE)}

\* published texts, abbreviated to the characters that decide their order:
\* ISO-8601 as arXiv, NewsAPI and YouTube give it ("2024-05-01T...",
\* "2024-05-06T...") and RFC 822 as feeds give it ("Wed, 01 May 2024 ...",
\* "Mon, 06 May 2024 ...")
IsoOld == << "0", "1" >>
IsoNew == << "0", "6" >>
RfcOld == << "W", "1" >>
RfcNew == << "M", "6" >>

ApiError == [err |-> TRUE, results |-> << >>]
Received(results) == [err |-> FALSE, results |-> results]
NoResponse == Received(<< >>)

ArxivResult(title, bad) ==
    [entry_id |-> << "arxiv.org", "abs", "p1" >>, title |-> title, summary |-> Desc,
     pdf_url |-> << "arxiv.org", "pdf", "p1" >>, published |-> IsoOld, bad |-> bad]

ArxivResponses ==
    {ApiError,
     Received(<< ArxivResult("t1", FALSE) >>),
     Received(<< ArxivResult("t2", FALSE) >>),
     Received(<< ArxivResult("t1", FALSE), ArxivResult("t2", TRUE) >>)}

Article(url) ==
    [url |-> url, title |-> "n", description |-> Desc, publishedAt |-> IsoOld, bad |-> FALSE]

\* news about a video, under its long and its short link
NewsResponses ==
    {ApiError,
     Received(<< >>),
     Received(<< Article(WatchUrl("v1")) >>),
     Received(<< Article(<< "youtu.be", "v1" >>) >>)}

Video(video_id, relevant, bad) ==
    [videoId |-> video_id, title |-> "v", description |-> Desc, publishedAt |-> IsoNew,
     relevant |-> relevant, bad |-> bad]

YoutubeResponses ==
    {ApiError,
     Received(<< Video("v1", TRUE, FALSE) >>),
     Received(<< Video("v1", TRUE, FALSE), Video("v2", FALSE, TRUE) >>),
     Received(<< Video("v1", TRUE, FALSE), Video("v2", TRUE, TRUE) >>)}

\* the n-th entry published by a feed; F1 gives its entries a guid, F2 only a link
EntryNames == [F1 |-> << "a1", "a2", "a3", "a4" >>, F2 |-> << "b1", "b2", "b3", "b4" >>]

NewEntry(f, n, bad) ==
    IF f = "F1"
    THEN [id |-> << "guid", EntryNames[f][n] >>, link |-> << f, "posts", EntryNames[f][n] >>,
          title |-> "b", summary |-> Desc, published |-> RfcOld, feed |-> f, bad |-> bad]
    ELSE [link |-> << f, "posts", EntryNames[f][n] >>,
          title |-> "b", summary |-> Desc, published |-> RfcOld, feed |-> f, bad |-> bad]

NoAnswer == [kind |-> "conn", text |-> << >>, data |-> << >>]

HealthyOracle ==
    [cat  |-> [kind |-> "json", text |-> << >>,
               data |-> [categories |-> << "Research" >>, importance_score |-> 8,
                         keywords |-> << "k" >>, suggested_short_summary |-> << "s" >>]],
     sum  |-> [kind |-> "text", text |-> << "s" >>, data |-> << >>],
     sum2 |-> [kind |-> "text", text |-> << "s" >>, data |-> << >>]]

DownOracle == [cat |-> NoAnswer, sum |-> NoAnswer, sum2 |-> NoAnswer]

\* the remote model is up, or down, for the whole of one batch
PipelineOracles(n) == {[k \in 1..n |-> o] : o \in {HealthyOracle, DownOracle}}

Maybe == {"None", "True", "False"}

----------------------------------------------------------------------------
(* State machine *)

EmptyData(timestamp) ==
    [timestamp |-> timestamp, arxiv_papers |-> << >>, news_articles |-> << >>,
     youtube_videos |-> << >>, blog_posts |-> << >>]

NoRaw == [k \in {"arxiv_papers", "news_articles", "youtube_videos"} |-> NoResponse]

NoResult == [returned |-> FALSE, raised |-> FALSE, status |-> "none", timestamp |-> 0]

EnrichOff == enKey = FALSE /\ enIn = << >> /\ enOut = << >> /\ enLog = << >> /\ enPc = "off"

NoCall == [name |-> "none"]

\* the callers of refresh_data: the scheduler process, two dashboard sessions
\* and the command line
Callers == {"scheduler", "session1", "session2", "cli"}

NotRunning == [at |-> "idle", by |-> "none", left |-> 0, ran |-> FALSE]

RefOff == inflight = [c \in Callers |-> NotRunning] /\ writeLock = "none"

NoArgs == [name |-> "none"]

FnOff == fnIn = NoArgs /\ fnOut = NoArgs

ApiOff ==
    /\ apiScan = << >> /\ apiOp = NoCall /\ apiRows = << >>
    /\ apiFlag = FALSE /\ apiMeta = NoMetadata

Init ==
    /\ config \in Configs
    /\ clock = 0
    /\ items = {}
    /\ source_metadata = {}
    /\ feed = [f \in FeedIds |-> << >>]
    /\ pc = "idle"
    /\ kidx = 0 /\ fidx = 0 /\ iidx = 0
    /\ raw = NoRaw
    /\ fault = {}
    /\ blog_posts = << >>
    /\ data = EmptyData(0)
    /\ batch = << >>
    /\ txn = NoTxn
    /\ skipped = {}
    /\ result = NoResult
    /\ wmAtStart = {}
    /\ flagOps = 0
    /\ EnrichOff
    /\ ApiOff
    /\ RefOff
    /\ FnOff

\* refresh_data is entered: collect_all_data builds data with get_timestamp()
StartRefresh ==
    /\ pc \in {"idle", "done"}
    /\ clock < MaxCycles
    /\ clock' = clock + 1
    /\ data' = EmptyData(clock')
    /\ pc' = "collect" /\ kidx' = 1 /\ fidx' = 0 /\ iidx' = 0
    /\ raw' = NoRaw /\ fault' = {} /\ blog_posts' = << >> /\ batch' = << >>
    /\ skipped' = {} /\ result' = NoResult
    /\ wmAtStart' = source_metadata
    /\ UNCHANGED <<config, items, source_metadata, feed, txn, flagOps>>
    /\ UNCHANGED <<enVars, apiVars, refVars, fnVars>>

\* sensitivity check: a failing collector empties every batch collected so far
CollectedOrReset(kind, resp, out) ==
    /\ raw' = [raw EXCEPT ![kind] = resp]
    /\ data' = IF out.error THEN EmptyData(data.timestamp) ELSE [data EXCEPT ![kind] = out.list]
    /\ fault' = IF out.error THEN fault \cup {kind} ELSE fault

\* what a collector call leaves in data, raw and fault
Collected(kind, resp, out) ==
    /\ raw' = [raw EXCEPT ![kind] = resp]
    /\ data' = [data EXCEPT ![kind] = out.list]
    /\ fault' = IF out.error THEN fault \cup {kind} ELSE fault

\* sensitivity check: gating on the enabled flags alone, without the API keys
EnabledIgnoringKeys(cfg, kind) ==
    CASE kind = "arxiv_papers" -> cfg.arxiv
      [] kind = "news_articles" -> cfg.news
      [] kind = "youtube_videos" -> cfg.youtube
      [] kind = "blog_posts" -> cfg.company_blogs

\* the conditions of collect_all_data under which a collector is called
SourceEnabled(cfg, kind) ==
    CASE kind = "arxiv_papers" -> cfg.arxiv
      [] kind = "news_articles" -> cfg.news /\ cfg.news_api_key
      [] kind = "youtube_videos" -> cfg.youtube /\ cfg.youtube_api_key
      [] kind = "blog_posts" -> cfg.company_blogs

CollectArxiv ==
    /\ pc = "collect" /\ kidx = 1
    /\ IF SourceEnabled(config, "arxiv_papers")
       THEN \E resp \in ArxivResponses :
                Collected("arxiv_papers", resp, collect_arxiv_papers(resp))
       ELSE UNCHANGED <<raw, data, fault>>
    /\ kidx' = 2
    /\ UNCHANGED <<config, clock, items, source_metadata, feed, pc, fidx, iidx, blog_posts,
                   batch, txn, skipped, result, wmAtStart, flagOps>>
    /\ UNCHANGED <<enVars, apiVars, refVars, fnVars>>

CollectNews ==
    /\ pc = "collect" /\ kidx = 2
    /\ IF SourceEnabled(config, "news_articles")
       THEN \E resp \in NewsResponses :
                Collected("news_articles", resp, collect_news_articles(resp))
       ELSE UNCHANGED <<raw, data, fault>>
    /\ kidx' = 3
    /\ UNCHANGED <<config, clock, items, source_metadata, feed, pc, fidx, iidx, blog_posts,
                   batch, txn, skipped, result, wmAtStart, flagOps>>
    /\ UNCHANGED <<enVars, apiVars, refVars, fnVars>>

CollectYoutube ==
    /\ pc = "collect" /\ kidx = 3
    /\ IF SourceEnabled(config, "youtube_videos")
       THEN \E resp \in YoutubeResponses :
                Collected("youtube_videos", resp, collect_youtube_videos(resp))
       ELSE UNCHANGED <<raw, data, fault>>
    /\ kidx' = 4
    /\ UNCHANGED <<config, clock, items, source_metadata, feed, pc, fidx, iidx, blog_posts,
                   batch, txn, skipped, result, wmAtStart, flagOps>>
    /\ UNCHANGED <<enVars, apiVars, refVars, fnVars>>

\* collect_all_data reaches company_blogs: skipped when disabled
CollectBlogsEnter ==
    /\ pc = "collect" /\ kidx = 4 /\ fidx = 0
    /\ IF SourceEnabled(config, "blog_posts")
       THEN fidx' = 1 /\ UNCHANGED <<pc, kidx>>
       ELSE pc' = "process" /\ kidx' = 1 /\ UNCHANGED fidx
    /\ UNCHANGED <<config, clock, items, source_metadata, feed, iidx, raw, fault, blog_posts,
                   data, batch, txn, skipped, result, wmAtStart, flagOps>>
    /\ UNCHANGED <<enVars, apiVars, refVars, fnVars>>

\* one iteration of "for feed_info in feeds"; an exception leaves the function
BlogFeedPass ==
    /\ pc = "collect" /\ kidx = 4 /\ fidx \in 1..Len(config.feeds)
    /\ LET feed_id == config.feeds[fidx]
           metadata == get_source_fetch_metadata(source_metadata, feed_id)
           pass == FeedPass(feed[feed_id], metadata, config.max_results, Len(config.feeds))
       IN IF pass.raises
          THEN /\ data' = [data EXCEPT !.blog_posts = << >>]
               /\ fault' = fault \cup {"blog_posts"}
               /\ blog_posts' = << >>
               /\ pc' = "process" /\ kidx' = 1 /\ fidx' = 0
               /\ UNCHANGED source_metadata
          ELSE /\ blog_posts' = blog_posts \o pass.posts
               /\ source_metadata' =
                      IF pass.newest_entry_this_run_id \notin {NoUrl, EmptyUrl}
                      THEN update_source_fetch_metadata(source_metadata, feed_id, clock,
                                                        pass.newest_entry_this_run_id)
                      ELSE source_metadata
               /\ fidx' = fidx + 1
               /\ UNCHANGED <<data, fault, pc, kidx>>
    /\ UNCHANGED <<config, clock, items, feed, iidx, raw, batch, txn, skipped, result,
                   wmAtStart, flagOps>>
    /\ UNCHANGED <<enVars, apiVars, refVars, fnVars>>

\* return blog_posts
CollectBlogsReturn ==
    /\ pc = "collect" /\ kidx = 4 /\ fidx = Len(config.feeds) + 1
    /\ data' = [data EXCEPT !.blog_posts = blog_posts]
    /\ blog_posts' = << >>
    /\ pc' = "process" /\ kidx' = 1 /\ fidx' = 0
    /\ UNCHANGED <<config, clock, items, source_metadata, feed, iidx, raw, fault, batch, txn,
                   skipped, result, wmAtStart, flagOps>>
    /\ UNCHANGED <<enVars, apiVars, refVars, fnVars>>

\* processed_items = self.processor.batch_process(items)
Process ==
    /\ pc = "process"
    /\ LET its == data[Kinds[kidx]]
       IN \E oracle \in IF config.anthropic_api_key THEN PipelineOracles(Len(its))
                        ELSE {<< >>} :
              batch' = batch_process(its, config.anthropic_api_key, oracle)
    /\ pc' = "upsert" /\ iidx' = 1
    /\ UNCHANGED <<config, clock, items, source_metadata, feed, kidx, fidx, raw, fault,
                   blog_posts, data, txn, skipped, result, wmAtStart, flagOps>>
    /\ UNCHANGED <<enVars, apiVars, refVars, fnVars>>

ContentTypeVal(source_key) ==
    CASE source_key = "arxiv_papers" -> "paper"
      [] source_key = "news_articles" -> "news"
      [] source_key = "youtube_videos" -> "video"
      [] source_key = "blog_posts" -> "blog"
      [] OTHER -> ""

\* the tuple bound to the INSERT for one processed item
DbItem(item, source_key) ==
    LET typed == IF "type" \notin DOMAIN item /\ ContentTypeVal(source_key) # ""
                 THEN Put(item, "type", ContentTypeVal(source_key))
                 ELSE item
    IN _item_to_db_format(typed, source_key, typed["type"])

\* rows the connection of refresh_data sees
Working == IF txn.open THEN txn.rows ELSE items

\* sensitivity check: a reader that sees the uncommitted rows of the writer
ReadUncommitted(tbl, t) == IF t.open THEN t.rows ELSE tbl

\* rows a connection other than refresh_data's reads: the committed ones
ReadCommitted(tbl, t) == tbl

\* one iteration of "for item in processed_items"
Upsert ==
    /\ pc = "upsert" /\ iidx \in 1..Len(batch)
    /\ LET r == UpsertItem(Working, DbItem(batch[iidx], Kinds[kidx]))
       IN /\ txn' = [open |-> TRUE, rows |-> r.tbl]
          /\ skipped' = IF r.ok THEN skipped ELSE skipped \cup {<< kidx, iidx >>}
    /\ iidx' = iidx + 1
    /\ UNCHANGED <<config, clock, items, source_metadata, feed, pc, kidx, fidx, raw, fault,
                   blog_posts, data, batch, result, wmAtStart, flagOps>>
    /\ UNCHANGED <<enVars, apiVars, refVars, fnVars>>

\* the batch is exhausted: next source kind, or leave the loop
NextKind ==
    /\ pc = "upsert" /\ iidx = Len(batch) + 1
    /\ IF kidx < Len(Kinds)
       THEN pc' = "process" /\ kidx' = kidx + 1
       ELSE pc' = "commit" /\ UNCHANGED kidx
    /\ iidx' = 0
    /\ UNCHANGED <<config, clock, items, source_metadata, feed, fidx, raw, fault, blog_posts,
                   data, batch, txn, skipped, result, wmAtStart, flagOps>>
    /\ UNCHANGED <<enVars, apiVars, refVars, fnVars>>

\* conn.commit(); conn.close(); return {"status": "success", "timestamp": ...}
Commit ==
    /\ pc = "commit"
    /\ items' = Working
    /\ txn' = NoTxn
    /\ result' = [returned |-> TRUE, raised |-> FALSE, status |-> "success",
                  timestamp |-> data.timestamp]
    /\ pc' = "done"
    /\ UNCHANGED <<config, clock, source_metadata, feed, kidx, fidx, iidx, raw, fault,
                   blog_posts, data, batch, skipped, wmAtStart, flagOps>>
    /\ UNCHANGED <<enVars, apiVars, refVars, fnVars>>

\* conn.commit() raises (database locked, I/O error): nothing catches it
CommitFails ==
    /\ pc = "commit"
    /\ txn' = NoTxn
    /\ result' = [returned |-> FALSE, raised |-> TRUE, status |-> "none", timestamp |-> 0]
    /\ pc' = "done"
    /\ UNCHANGED <<config, clock, items, source_metadata, feed, kidx, fidx, iidx, raw, fault,
                   blog_posts, data, batch, skipped, wmAtStart, flagOps>>
    /\ UNCHANGED <<enVars, apiVars, refVars, fnVars>>

\* the process stops during a cycle and is started again: only the database survives
Crash ==
    /\ pc \in {"collect", "process", "upsert", "commit"}
    /\ pc' = "idle" /\ kidx' = 0 /\ fidx' = 0 /\ iidx' = 0
    /\ raw' = NoRaw /\ fault' = {} /\ blog_posts' = << >> /\ batch' = << >>
    /\ data' = EmptyData(0)
    /\ txn' = NoTxn /\ skipped' = {} /\ result' = NoResult
    /\ UNCHANGED <<config, clock, items, source_metadata, feed, wmAtStart, flagOps>>
    /\ UNCHANGED <<enVars, apiVars, refVars, fnVars>>

\* DataManager.update_item_flags from the dashboard; it needs the write lock
UpdateItemFlags ==
    /\ ~txn.open
    /\ flagOps < MaxFlagOps
    /\ \E item_id \in {r.id : r \in items} \cup {"unknown"}, bookmarked \in Maybe, is_read \in Maybe :
           items' = IF bookmarked = "None" /\ is_read = "None"
                    THEN items
                    ELSE SetFlags(items, item_id, bookmarked, is_read)
    /\ flagOps' = flagOps + 1
    /\ UNCHANGED <<config, clock, source_metadata, feed, pc, kidx, fidx, iidx, raw, fault,
                   blog_posts, data, batch, txn, skipped, result, wmAtStart>>
    /\ UNCHANGED <<enVars, apiVars, refVars, fnVars>>

\* a configured feed publishes a new entry
Publish ==
    /\ pc \in {"idle", "done"}
    /\ \E k \in 1..Len(config.feeds), bad \in BOOLEAN :
           LET f == config.feeds[k]
           IN /\ Len(feed[f]) < MaxEntries
              /\ feed' = [feed EXCEPT ![f] = << NewEntry(f, Len(feed[f]) + 1, bad) >> \o @]
    /\ UNCHANGED <<config, clock, items, source_metadata, pc, kidx, fidx, iidx, raw, fault,
                   blog_posts, data, batch, txn, skipped, result, wmAtStart, flagOps>>
    /\ UNCHANGED <<enVars, apiVars, refVars, fnVars>>

Next ==
    \/ StartRefresh
    \/ CollectArxiv
    \/ CollectNews
    \/ CollectYoutube
    \/ CollectBlogsEnter
    \/ BlogFeedPass
    \/ CollectBlogsReturn
    \/ Process
    \/ Upsert
    \/ NextKind
    \/ Commit
    \/ CommitFails
    \/ Crash
    \/ UpdateItemFlags
    \/ Publish

Spec == Init /\ [][Next]_vars

----------------------------------------------------------------------------
(* ClaudeProcessor.batch_process on its own: the input list, the API key   *)
(* and the answers of the remote model are drawn from small sets.          *)

LongText == [k \in 1..(SummaryMaxLength + 1) |-> "x"]

\* items as the collectors build them: an article, a post with its full
\* text, a paper, a video without description, an article with a long one;
\* and an article that already carries an importance_score
EnrichItems ==
    [article |-> [id |-> "n1", title |-> "n", description |-> Desc, type |-> "news"],
     post    |-> [id |-> "a1", title |-> "b", description |-> Desc,
                  full_text_content |-> << "f" >>, type |-> "blog"],
     paper   |-> [id |-> "p1", title |-> "t1", abstract |-> Desc,
                  categories |-> << "cs.AI" >>, type |-> "paper"],
     silent  |-> [id |-> "v1", title |-> "v", description |-> << >>, type |-> "video"],
     long    |-> [id |-> "n2", title |-> "n", description |-> LongText, type |-> "news"],
     scored  |-> [id |-> "n3", title |-> "n", description |-> Desc, importance_score |-> 8,
                  type |-> "news"]]

\* the JSON objects the categorisation call may answer with
AnalysisData ==
    {[categories |-> << "Research" >>, importance_score |-> 8, keywords |-> << "k" >>,
      suggested_short_summary |-> << "s" >>],
     [categories |-> << >>, importance_score |-> 8, keywords |-> << >>,
      suggested_short_summary |-> << >>],
     << >>}

CatAnswers ==
    {[kind |-> "json", text |-> << >>, data |-> d] : d \in AnalysisData}
        \cup {[kind |-> k, text |-> << >>, data |-> << >>] : k \in {"nojson", "conn", "rate"}}

SumAnswers ==
    {[kind |-> "text", text |-> t, data |-> << >>] : t \in {<< "s" >>, << " " >>}}
        \cup {[kind |-> k, text |-> << >>, data |-> << >>] : k \in {"conn", "rate"}}

EnrichOracles == [cat : CatAnswers, sum : SumAnswers, sum2 : SumAnswers]

PipelineIdle ==
    /\ config = EnrichedConfig
    /\ clock = 0 /\ items = {} /\ source_metadata = {}
    /\ feed = [f \in FeedIds |-> << >>]
    /\ pc = "idle" /\ kidx = 0 /\ fidx = 0 /\ iidx = 0
    /\ raw = NoRaw /\ fault = {} /\ blog_posts = << >>
    /\ data = EmptyData(0) /\ batch = << >> /\ txn = NoTxn
    /\ skipped = {} /\ result = NoResult /\ wmAtStart = {} /\ flagOps = 0

InitEnrich ==
    /\ PipelineIdle
    /\ enKey \in BOOLEAN
    /\ \E n \in 0..MaxEnrichBatch : \E names \in [1..n -> DOMAIN EnrichItems] :
           enIn = [k \in 1..n |-> EnrichItems[names[k]]]
    /\ enOut = << >> /\ enLog = << >>
    /\ enPc = "call"
    /\ ApiOff
    /\ RefOff
    /\ FnOff

\* processed_items = processor.batch_process(items)
BatchProcess ==
    /\ enPc = "call"
    /\ \E oracle \in [1..Len(enIn) -> EnrichOracles] :
           /\ enOut' = batch_process(enIn, enKey, oracle)
           /\ enLog' = batch_process_events(enIn, enKey, oracle)
    /\ enPc' = "returned"
    /\ UNCHANGED <<enKey, enIn>>
    /\ UNCHANGED <<pipeVars, apiVars, refVars, fnVars>>

NextEnrich == BatchProcess

SpecEnrich == InitEnrich /\ [][NextEnrich]_vars

(* batch_process against categorisation answers whose importance_score is  *)
(* below the scale, on it, above it, or missing.                           *)

ScoredAnalysis(score) ==
    [categories |-> << "Research" >>, importance_score |-> score, keywords |-> << "k" >>,
     suggested_short_summary |-> << "s" >>]

ScoreAnswers ==
    {[kind |-> "json", text |-> << >>, data |-> ScoredAnalysis(score)] : score \in {0, 8, 15}}
        \cup {[kind |-> "json", text |-> << >>,
               data |-> [categories |-> << "Research" >>, keywords |-> << "k" >>]],
              [kind |-> "nojson", text |-> << >>, data |-> << >>]}

ScoreOracles ==
    [cat : ScoreAnswers, sum : {[kind |-> "text", text |-> << "s" >>, data |-> << >>]},
     sum2 : {[kind |-> "text", text |-> << "s" >>, data |-> << >>]}]

\* processed_items = processor.batch_process(items)
BatchProcessScores ==
    /\ enPc = "call"
    /\ \E oracle \in [1..Len(enIn) -> ScoreOracles] :
           /\ enOut' = batch_process(enIn, enKey, oracle)
           /\ enLog' = batch_process_events(enIn, enKey, oracle)
    /\ enPc' = "returned"
    /\ UNCHANGED <<enKey, enIn>>
    /\ UNCHANGED <<pipeVars, apiVars, refVars, fnVars>>

NextScores == BatchProcessScores

SpecScores == InitEnrich /\ [][NextScores]_vars

----------------------------------------------------------------------------
(* The feed page (app.py): sidebar filters applied to fetched items, and   *)
(* the paginated fetch.  A sidebar is [min_importance, topic_filter,       *)
(* source_filter, start_date, end_date]; a date is a day number, 0 = None. *)

Digits == << "0", "1", "2", "3", "4", "5", "6", "7", "8", "9" >>

\* datetime.fromisoformat(published).date(): texts here are two characters,
\* an ISO text is "0" followed by the day; anything else raises ValueError
fromisoformat(text) ==
    IF Len(text) = 2 /\ text[1] = "0" /\ \E d \in 1..10 : Digits[d] = text[2]
    THEN [ok |-> TRUE, day |-> (CHOOSE d \in 1..10 : Digits[d] = text[2]) - 1]
    ELSE [ok |-> FALSE, day |-> 0]

PassesDateFilter(item, start_date, end_date) ==
    IF item.published # NoneText /\ item.published # << >>
    THEN LET item_date == fromisoformat(item.published)
         IN IF ~item_date.ok THEN TRUE
            ELSE /\ ~(start_date # 0 /\ item_date.day < start_date)
                 /\ ~(end_date # 0 /\ item_date.day > end_date)
    ELSE FALSE

apply_date_filter(its, start_date, end_date) ==
    IF start_date = 0 /\ end_date = 0 THEN its
    ELSE LET Passes(item) == PassesDateFilter(item, start_date, end_date)
         IN SelectSeq(its, Passes)

\* rows read from the store have no 'type' key, so only the source names
\* 'arxiv' and 'youtube' can fail the source filter
PassesSourceFilter(item, source_filter) ==
    IF "arXiv" \notin source_filter /\ item.source = "arxiv" THEN FALSE
    ELSE IF "YouTube" \notin source_filter /\ item.source = "youtube" THEN FALSE
    ELSE TRUE

PassesTopicFilter(item, topic_filter) ==
    topic_filter = << >> \/
    \E k \in 1..Len(topic_filter) : \E c \in 1..Len(item.categories) :
        PyLower(topic_filter[k]) = PyLower(item.categories[c])

apply_filters(its, sidebar) ==
    LET Passes(item) == /\ PassesSourceFilter(item, sidebar.source_filter)
                        /\ PassesTopicFilter(item, sidebar.topic_filter)
                        /\ ~(item.importance_score < sidebar.min_importance)
    IN apply_date_filter(SelectSeq(its, Passes), sidebar.start_date, sidebar.end_date)

SidebarDbFilters(sidebar) ==
    LET f1 == IF sidebar.min_importance > 1
              THEN Put(EmptyDict, "min_importance", sidebar.min_importance)
              ELSE EmptyDict
    IN IF sidebar.topic_filter # << >> THEN Put(f1, "topics", sidebar.topic_filter) ELSE f1

get_paginated_data(table, data_type, current_page, sidebar, items_per_page) ==
    LET offset == current_page * items_per_page
        fetched == get_data_by_type(table, data_type, items_per_page + 1, offset,
                                    SidebarDbFilters(sidebar))
        filtered_items == apply_filters(fetched, sidebar)
        has_more == Len(filtered_items) > items_per_page
    IN [items |-> IF has_more THEN SubSeq(filtered_items, 1, items_per_page)
                  ELSE filtered_items,
        has_more |-> has_more]

----------------------------------------------------------------------------
(* The read methods of DataManager and the paginated fetch, called on a    *)
(* store of up to MaxRows rows.  apiScan holds the ids in rowid order.     *)
(* The reads leave the store alone, so each behaviour makes one call.     *)

Et == << "E", "t" >>
EtLower == << "e", "t" >>
AiEt == << "A", "I", " ", "E", "t" >>
Ml == << "M", "L" >>
MlLower == << "m", "l" >>
Abc == << "a", "b", "c" >>
Filler == << "x" >>

StoredRow(id, source, ctype, title, description, summary, published, cats, kws, score, bm) ==
    [id |-> id, title |-> title, url |-> << "u", id >>, source |-> source,
     source_type |-> IF ctype = "paper" THEN "arxiv_papers"
                     ELSE IF ctype = "video" THEN "youtube_videos"
                     ELSE IF ctype = "news" THEN "news_articles"
                     ELSE "blog_posts",
     content_type |-> ctype, description |-> description,
     summary |-> summary, published |-> published, categories |-> cats,
     keywords |-> kws, importance_score |-> score,
     bookmarked |-> bm, is_read |-> 0]

QueryRows ==
    << StoredRow("p1", "arxiv", "paper", Ml, Filler, Filler, IsoOld, << Et >>, << >>, 8, 1),
       StoredRow("p2", "arxiv", "paper", Filler, MlLower, NoneText, IsoNew, << EtLower >>, << >>, 7, 0),
       StoredRow("p3", "arxiv", "paper", Filler, Filler, Filler, NoneText, << AiEt >>, << Et >>, 7, 1),
       StoredRow("p4", "arxiv", "paper", Abc, Filler, Filler, IsoNew, << >>, << >>, 5, 0),
       StoredRow("b1", "F1", "blog", << "É" >>, Filler, Filler, RfcOld, << Et >>, << >>, 5, 1),
       StoredRow("b2", "F2", "blog", Filler, Filler, Ml, RfcNew, << >>, << MlLower >>, 5, 1),
       StoredRow("v1", "youtube", "video", Filler, Filler, Filler, IsoNew, << >>, << Ml >>, 5, 0) >>

\* the items table as a sequence of rows in rowid order
Table == [k \in 1..Len(apiScan) |-> CHOOSE r \in items : r.id = apiScan[k]]

PipelineAtRest ==
    /\ config = EnrichedConfig
    /\ clock = 0
    /\ feed = [f \in FeedIds |-> << >>]
    /\ pc = "idle" /\ kidx = 0 /\ fidx = 0 /\ iidx = 0
    /\ raw = NoRaw /\ fault = {} /\ blog_posts = << >>
    /\ data = EmptyData(0) /\ batch = << >> /\ txn = NoTxn
    /\ skipped = {} /\ result = NoResult /\ wmAtStart = {} /\ flagOps = 0

InitQuery ==
    /\ PipelineAtRest
    /\ EnrichOff
    /\ source_metadata = {}
    /\ \E n \in 0..MaxRows : \E pick \in [1..n -> 1..Len(QueryRows)] :
           /\ \A i, j \in 1..n : pick[i] = pick[j] => i = j
           /\ apiScan = [k \in 1..n |-> QueryRows[pick[k]].id]
           /\ items = {QueryRows[pick[k]] : k \in 1..n}
    /\ apiOp = NoCall /\ apiRows = << >> /\ apiFlag = FALSE /\ apiMeta = NoMetadata
    /\ RefOff
    /\ FnOff

QueryTypes == {"paper", "blog"}
QueryLimits == {1, MaxRows + 1}
QueryOffsets == 0..1
Topics == {<< Et >>, << EtLower >>, << EtLower, Ml >>, << << "E", "_" >> >>}
TypeFilters ==
    {EmptyDict}
    \cup {Put(EmptyDict, "min_importance", m) : m \in {1, 7, 8}}
    \cup {Put(EmptyDict, "topics", S) : S \in Topics}
    \cup {Put(Put(EmptyDict, "min_importance", 7), "topics", << Et >>)}
SearchQueries == {Ml, MlLower, Et, << "a", "_", "c" >>, << "[" >>, << "é" >>, << "z" >>}
SearchFilters ==
    {EmptyDict, Put(EmptyDict, "min_importance", 7),
     Put(EmptyDict, "sources", << "arxiv_papers" >>),
     Put(Put(EmptyDict, "min_importance", 7), "sources", << "arxiv_papers", "blog_posts" >>)}
Sidebars ==
    [min_importance : {1, 7}, topic_filter : {<< >>, << Et >>},
     source_filter : {{"arXiv", "News", "YouTube", "Blogs"}},
     start_date : {0, 5}, end_date : {0}]

QueryVars == <<pipeVars, enVars, apiScan, apiMeta, refVars, fnVars>>

GetDataByType ==
    /\ apiOp = NoCall
    /\ \E content_type \in QueryTypes, limit \in QueryLimits, offset \in QueryOffsets,
          filters \in TypeFilters :
           /\ apiOp' = [name |-> "get_data_by_type", content_type |-> content_type,
                        limit |-> limit, offset |-> offset, filters |-> filters]
           /\ apiRows' = get_data_by_type(Table, content_type, limit, offset, filters)
    /\ UNCHANGED <<QueryVars, apiFlag>>

SearchAllData ==
    /\ apiOp = NoCall
    /\ \E search_query \in SearchQueries, limit \in QueryLimits, offset \in QueryOffsets,
          filters \in SearchFilters :
           /\ apiOp' = [name |-> "search_all_data", search_query |-> search_query,
                        limit |-> limit, offset |-> offset, filters |-> filters]
           /\ apiRows' = search_all_data(Table, search_query, limit, offset, filters)
    /\ UNCHANGED <<QueryVars, apiFlag>>

GetBookmarkedItems ==
    /\ apiOp = NoCall
    /\ \E limit \in QueryLimits, offset \in QueryOffsets :
           /\ apiOp' = [name |-> "get_bookmarked_items", limit |-> limit, offset |-> offset]
           /\ apiRows' = get_bookmarked_items(Table, limit, offset)
    /\ UNCHANGED <<QueryVars, apiFlag>>

GetPaginatedData ==
    /\ apiOp = NoCall
    /\ \E data_type \in QueryTypes, current_page \in 0..MaxPage, sidebar \in Sidebars,
          items_per_page \in 1..MaxPageSize :
           LET page == get_paginated_data(Table, data_type, current_page, sidebar,
                                          items_per_page)
           IN /\ apiOp' = [name |-> "get_paginated_data", data_type |-> data_type,
                           current_page |-> current_page, sidebar |-> sidebar,
                           items_per_page |-> items_per_page]
              /\ apiRows' = page.items
              /\ apiFlag' = page.has_more
    /\ UNCHANGED QueryVars

NextQuery ==
    \/ GetDataByType
    \/ SearchAllData
    \/ GetBookmarkedItems
    \/ GetPaginatedData

SpecQuery == InitQuery /\ [][NextQuery]_vars

----------------------------------------------------------------------------
(* update_item_flags called from the dashboard on a store of up to two     *)
(* rows whose flags have any value, beside a watermark table that may hold *)
(* a row.                                                                  *)

StoreIds == {"p1", "b1"}
FetchTimes == {1, 2}
LastItemIds == {NoUrl, << "e1" >>, << "e2" >>}

StoreRows ==
    {[QueryRows[k] EXCEPT !.bookmarked = b, !.is_read = r] :
         k \in {k \in 1..Len(QueryRows) : QueryRows[k].id \in StoreIds}, b \in {0, 1}, r \in {0, 1}}

StoredWatermark == [source_id |-> "F1", last_successful_fetch |-> 1, last_item_id |-> << "e1" >>]

InitStore ==
    /\ PipelineAtRest
    /\ EnrichOff
    /\ source_metadata \in {{}, {StoredWatermark}}
    /\ items \in SUBSET StoreRows
    /\ \A r1, r2 \in items : r1.id = r2.id => r1 = r2
    /\ apiScan = << >>
    /\ apiOp = NoCall /\ apiRows = << >> /\ apiFlag = FALSE /\ apiMeta = NoMetadata
    /\ RefOff
    /\ FnOff

StoreVars == <<config, clock, feed, pc, kidx, fidx, iidx, raw, fault, blog_posts, data,
               batch, txn, skipped, result, wmAtStart, flagOps, enVars, apiScan, apiRows,
               refVars, fnVars>>

CallUpdateItemFlags ==
    /\ \E item_id \in StoreIds \cup {"unknown"}, bookmarked \in Maybe, is_read \in Maybe :
           LET call == update_item_flags(items, item_id, bookmarked, is_read)
           IN /\ items' = call.tbl
              /\ apiFlag' = call.ret
              /\ apiOp' = [name |-> "update_item_flags", item_id |-> item_id,
                           bookmarked |-> bookmarked, is_read |-> is_read]
    /\ UNCHANGED <<StoreVars, source_metadata, apiMeta>>

NextStore == CallUpdateItemFlags

SpecStore == InitStore /\ [][NextStore]_vars

----------------------------------------------------------------------------
(* The watermark table: update_source_fetch_metadata and                   *)
(* get_source_fetch_metadata, starting from an empty table.                *)

InitWatermark ==
    /\ PipelineAtRest
    /\ EnrichOff
    /\ source_metadata = {}
    /\ items = {}
    /\ apiScan = << >>
    /\ apiOp = NoCall /\ apiRows = << >> /\ apiFlag = FALSE /\ apiMeta = NoMetadata
    /\ RefOff
    /\ FnOff

CallUpdateSourceFetchMetadata ==
    /\ \E source_id \in FeedIds, last_successful_fetch \in FetchTimes,
          last_item_id \in LastItemIds :
           /\ source_metadata' = update_source_fetch_metadata(
                                     source_metadata, source_id, last_successful_fetch,
                                     last_item_id)
           /\ apiOp' = [name |-> "update_source_fetch_metadata", source_id |-> source_id,
                        last_successful_fetch |-> last_successful_fetch,
                        last_item_id |-> last_item_id]
    /\ UNCHANGED <<StoreVars, items, apiFlag, apiMeta>>

CallGetSourceFetchMetadata ==
    /\ \E source_id \in FeedIds :
           /\ apiMeta' = get_source_fetch_metadata(source_metadata, source_id)
           /\ apiOp' = [name |-> "get_source_fetch_metadata", source_id |-> source_id]
    /\ UNCHANGED <<StoreVars, items, source_metadata, apiFlag>>

NextWatermark ==
    \/ CallUpdateSourceFetchMetadata
    \/ CallGetSourceFetchMetadata

SpecWatermark == InitWatermark /\ [][NextWatermark]_vars

----------------------------------------------------------------------------
(* The callers of refresh_data.  The scheduler process runs its initial    *)
(* refresh inside start() and afterwards the interval job, one instance at *)
(* a time (max_instances=1); a dashboard session calls it from the refresh *)
(* button; the command line calls it from "refresh".  Each caller is its   *)
(* own thread or process with its own database connection.  refresh_data   *)
(* collects, then upserts item by item, then commits.  The first INSERT    *)
(* that succeeds takes the write lock of the database; an INSERT made      *)
(* while another connection holds it raises "database is locked", which    *)
(* the loop logs before going on to the next item.                         *)

InitCallers ==
    /\ PipelineAtRest
    /\ EnrichOff
    /\ ApiOff
    /\ FnOff
    /\ items = {} /\ source_metadata = {}
    /\ RefOff

CallerFrame == UNCHANGED <<pipeVars, enVars, apiVars, fnVars>>

\* refresh_data is entered: nothing is tested before collect_all_data
EnterRefresh(c, by) == [inflight EXCEPT ![c] = [@ EXCEPT !.at = "collect", !.by = by]]

\* AIFeedScheduler.start: self.scheduled_refresh_job() before scheduler.start()
InitialRefresh ==
    /\ inflight["scheduler"].at = "idle" /\ ~inflight["scheduler"].ran
    /\ inflight' = EnterRefresh("scheduler", "initial")
    /\ UNCHANGED writeLock
    /\ CallerFrame

\* the interval trigger fires; max_instances=1 keeps it from overlapping itself
IntervalJob ==
    /\ inflight["scheduler"].at = "idle" /\ inflight["scheduler"].ran
    /\ inflight' = EnterRefresh("scheduler", "interval")
    /\ UNCHANGED writeLock
    /\ CallerFrame

\* the sidebar button of a dashboard session
RefreshButton ==
    /\ \E c \in {"session1", "session2"} :
           /\ inflight[c].at = "idle"
           /\ inflight' = EnterRefresh(c, "button")
    /\ UNCHANGED writeLock
    /\ CallerFrame

\* python run.py refresh
RefreshCommand ==
    /\ inflight["cli"].at = "idle"
    /\ inflight' = EnterRefresh("cli", "command")
    /\ UNCHANGED writeLock
    /\ CallerFrame

\* collect_all_data returned: the loop over the batches begins
CollectReturns ==
    \E c \in Callers, n \in 0..MaxUpserts :
        /\ inflight[c].at = "collect"
        /\ inflight' = [inflight EXCEPT ![c] = [@ EXCEPT !.at = "upsert", !.left = n]]
        /\ UNCHANGED writeLock
        /\ CallerFrame

\* cursor.execute(INSERT ...) for one item
UpsertOne ==
    \E c \in Callers :
        /\ inflight[c].at = "upsert" /\ inflight[c].left > 0
        /\ inflight' = [inflight EXCEPT ![c] = [@ EXCEPT !.left = @ - 1]]
        /\ writeLock' = IF writeLock = "none" THEN c ELSE writeLock
        /\ CallerFrame

\* conn.commit(); conn.close(); return
CommitReturns ==
    \E c \in Callers :
        /\ inflight[c].at = "upsert" /\ inflight[c].left = 0
        /\ inflight' = [inflight EXCEPT ![c] = [@ EXCEPT !.at = "idle", !.by = "none",
                                                          !.ran = TRUE]]
        /\ writeLock' = IF writeLock = c THEN "none" ELSE writeLock
        /\ CallerFrame

NextCallers ==
    \/ InitialRefresh
    \/ IntervalJob
    \/ RefreshButton
    \/ RefreshCommand
    \/ CollectReturns
    \/ UpsertOne
    \/ CommitReturns

SpecCallers == InitCallers /\ [][NextCallers]_vars

----------------------------------------------------------------------------
(* The upsert loop of refresh_data run over the batches of one collection  *)
(* in a chosen order: the news batch and the blog batch, each of up to     *)
(* MaxBatchLen items, on a table that is empty or holds one row.           *)

\* the loops of refresh_data over a list of tuples, on one connection
RECURSIVE UpsertAll(_, _)
UpsertAll(tbl, rows) ==
    IF rows = << >> THEN tbl
    ELSE UpsertAll(UpsertItem(tbl, Head(rows)).tbl, Tail(rows))

Reverse(xs) == [k \in 1..Len(xs) |-> xs[Len(xs) + 1 - k]]

NewsRow(id, url, title) ==
    [StoredRow(id, "Wire", "news", title, Filler, Filler, IsoOld, << >>, << >>, 5, 0)
        EXCEPT !.url = url]

BlogRow(id, url, title) ==
    [StoredRow(id, "F1", "blog", title, Filler, Filler, RfcOld, << >>, << >>, 5, 0)
        EXCEPT !.url = url]

\* two articles whose urls end in the same segment, and one apart
NewsBatchRows ==
    {NewsRow("a", << "x", "a" >>, Ml), NewsRow("a", << "y", "a" >>, Abc),
     NewsRow("c", << "x", "c" >>, Ml)}

\* a post with the id of the articles, and a post with the url of the first
BlogBatchRows ==
    {BlogRow("a", << "z", "a" >>, Filler), BlogRow("b", << "x", "a" >>, Filler)}

Batches(rows) ==
    {b \in UNION {[1..n -> rows] : n \in 0..MaxBatchLen} :
         \A i, j \in 1..Len(b) : b[i] = b[j] => i = j}

InitOrder ==
    /\ PipelineAtRest
    /\ EnrichOff
    /\ ApiOff
    /\ RefOff
    /\ source_metadata = {}
    /\ items \in {{}, {[NewsRow("c", << "x", "c" >>, Filler) EXCEPT !.bookmarked = 1]}}
    /\ \E news \in Batches(NewsBatchRows), blogs \in Batches(BlogBatchRows) :
           fnIn = [name |-> "upsert_loop", news_articles |-> news, blog_posts |-> blogs]
    /\ fnOut = NoArgs

\* the loop run with the kinds, and the items of each batch, in some order
UpsertInOrder ==
    /\ fnOut = NoArgs
    /\ \E blogs_first \in BOOLEAN, news_reversed \in BOOLEAN, blogs_reversed \in BOOLEAN :
           LET news == IF news_reversed THEN Reverse(fnIn.news_articles)
                       ELSE fnIn.news_articles
               blogs == IF blogs_reversed THEN Reverse(fnIn.blog_posts)
                        ELSE fnIn.blog_posts
               rows == IF blogs_first THEN blogs \o news ELSE news \o blogs
           IN fnOut' = [name |-> "upsert_loop", rows |-> rows, tbl |-> UpsertAll(items, rows)]
    /\ UNCHANGED <<pipeVars, enVars, apiVars, refVars, fnIn>>

NextOrder == UpsertInOrder

SpecOrder == InitOrder /\ [][NextOrder]_vars

----------------------------------------------------------------------------
(* utils.truncate_text called on None, on '' and on every text of up to    *)
(* MaxTextLen characters over a two-letter alphabet.                       *)

TextsUpTo(n) == UNION {[1..k -> {"a", "b"}] : k \in 0..n}

InitTruncate ==
    /\ PipelineAtRest
    /\ EnrichOff
    /\ ApiOff
    /\ RefOff
    /\ items = {} /\ source_metadata = {}
    /\ \E text \in TextsUpTo(MaxTextLen) \cup {NoneText}, max_length \in 0..MaxTextLen :
           fnIn = [name |-> "truncate_text", text |-> text, max_length |-> max_length]
    /\ fnOut = NoArgs

TruncateText ==
    /\ fnIn.name = "truncate_text" /\ fnOut = NoArgs
    /\ fnOut' = [name |-> "truncate_text", value |-> truncate_text(fnIn.text, fnIn.max_length)]
    /\ UNCHANGED <<pipeVars, enVars, apiVars, refVars, fnIn>>

NextTruncate == TruncateText

SpecTruncate == InitTruncate /\ [][NextTruncate]_vars

----------------------------------------------------------------------------
(* The ids collect_news_articles and collect_company_blogs give to what    *)
(* they collect in one cycle: articles and link-only feed entries under    *)
(* urls that share their last path segment, end in '/', or do neither.     *)

IdUrls ==
    {<< "news.example", "ai", "launch" >>, << "blog.example", "ai", "launch" >>,
     << "news.example", "ai", "" >>, << "news.example", "ml", "" >>,
     << "news.example", "ml", "paper" >>}

LinkEntry(url) ==
    [link |-> url, title |-> "b", summary |-> Desc, published |-> RfcOld, feed |-> "F2",
     bad |-> FALSE]

InitIds ==
    /\ PipelineAtRest
    /\ EnrichOff
    /\ ApiOff
    /\ RefOff
    /\ items = {} /\ source_metadata = {}
    /\ \E urls \in Batches(IdUrls), links \in Batches(IdUrls) :
           fnIn = [name |-> "collect_ids",
                   articles |-> [k \in 1..Len(urls) |-> Article(urls[k])],
                   entries |-> [k \in 1..Len(links) |-> LinkEntry(links[k])]]
    /\ fnOut = NoArgs

\* news_articles and blog_posts of one collect_all_data
CollectIds ==
    /\ fnIn.name = "collect_ids" /\ fnOut = NoArgs
    /\ fnOut' = [name |-> "collect_ids",
                 news_articles |-> collect_news_articles(Received(fnIn.articles)).list,
                 blog_posts |-> FeedPass(fnIn.entries, NoMetadata, 2 * MaxBatchLen, 1).posts]
    /\ UNCHANGED <<pipeVars, enVars, apiVars, refVars, fnIn>>

NextIds == CollectIds

SpecIds == InitIds /\ [][NextIds]_vars

----------------------------------------------------------------------------
(* One pass of collect_company_blogs over a feed of up to MaxFeedLen       *)
(* entries: entries with a guid, an entry with a link only, and an item    *)
(* with neither (RSS requires only a title or a description), against no   *)
(* stored watermark, the watermark of an entry, or one no entry has.       *)

\* an RSS item without guid and link
BareEntry ==
    [title |-> "b", summary |-> Desc, published |-> RfcOld, feed |-> "F1", bad |-> FALSE]

ScanEntryPool ==
    {NewEntry("F1", 1, FALSE), NewEntry("F1", 2, FALSE), NewEntry("F2", 1, FALSE), BareEntry}

ScanFeeds ==
    {es \in UNION {[1..n -> ScanEntryPool] : n \in 0..MaxFeedLen} :
         \A i, j \in 1..Len(es) : es[i] = es[j] => i = j}

StoredMetadata(last_item_id) ==
    [source_id |-> "F1", last_successful_fetch |-> 1, last_item_id |-> last_item_id]

ScanMetadata ==
    {NoMetadata, StoredMetadata(<< "guid", "gone" >>)}
        \cup {StoredMetadata(EntryId(e)) : e \in ScanEntryPool \ {BareEntry}}

InitScan ==
    /\ PipelineAtRest
    /\ EnrichOff
    /\ ApiOff
    /\ RefOff
    /\ items = {} /\ source_metadata = {}
    /\ \E entries \in ScanFeeds, metadata \in ScanMetadata, max_results \in {1, 2, 4},
          nfeeds \in {1, 2} :
           fnIn = [name |-> "feed_pass", entries |-> entries, metadata |-> metadata,
                   max_results |-> max_results, nfeeds |-> nfeeds]
    /\ fnOut = NoArgs

\* one iteration of "for feed_info in feeds", up to the metadata update
PassOverFeed ==
    /\ fnIn.name = "feed_pass" /\ fnOut = NoArgs
    /\ fnOut' = [name |-> "feed_pass",
                 pass |-> FeedPass(fnIn.entries, fnIn.metadata, fnIn.max_results, fnIn.nfeeds)]
    /\ UNCHANGED <<pipeVars, enVars, apiVars, refVars, fnIn>>

NextScan == PassOverFeed

SpecScan == InitScan /\ [][NextScan]_vars

----------------------------------------------------------------------------
(* Vocabulary of the properties *)

InCycle == pc \in {"collect", "process", "upsert", "commit"}

\* the step taken is one execution of the INSERT of refresh_data
UpsertStep == pc = "upsert" /\ iidx \in 1..Len(batch) /\ pc' = "upsert" /\ iidx' = iidx + 1

\* the tuple that step binds
Bound == DbItem(batch[iidx], Kinds[kidx])

\* a row without its two user-owned flags
SourceFields(r) == [r EXCEPT !.bookmarked = 0, !.is_read = 0]

\* the url of d is stored under another id
UrlCollision(tbl, d) == d.url # NoUrl /\ \E r \in tbl : r.url = d.url /\ r.id # d.id

Ids(tbl) == {r.id : r \in tbl}

OneRowPerId(tbl) == \A r1, r2 \in tbl : r1.id = r2.id => r1 = r2

\* last_item_id of a feed in a source_metadata table, NoUrl when it has no row
Watermark(tbl, f) == get_source_fetch_metadata(tbl, f).last_item_id

\* every record of the cycle's batches was stored, or skipped on an IntegrityError
AllStoredOrSkipped(tbl) ==
    \A k \in 1..Len(Kinds) : \A i \in 1..Len(data[Kinds[k]]) :
        << k, i >> \in skipped \/ data[Kinds[k]][i].id \in Ids(tbl)

----------------------------------------------------------------------------
(* C1  Flag preservation.  An upsert of an id that is already stored       *)
(* leaves bookmarked and is_read of that row as they were, whatever the    *)
(* collected item carries, and the commit publishes exactly the rows of    *)
(* the transaction.  The other columns take the values of the collected    *)
(* item - unless its url is stored under a different id: then the          *)
(* statement fails and the row keeps all its values.                       *)

C1_FlagsKeptFieldsReplaced ==
    [][/\ UpsertStep =>
            \A r \in Working : r.id = Bound.id =>
                \E r2 \in Working' :
                    /\ r2.id = r.id
                    /\ r2.bookmarked = r.bookmarked /\ r2.is_read = r.is_read
                    /\ IF UrlCollision(Working, Bound)
                       THEN r2 = r
                       ELSE SourceFields(r2) = SourceFields(Bound)
       /\ (pc = "commit" /\ result'.returned) => items' = Working]_vars

\* C1 as stated: the source-derived columns take the collected values in every case
C1_AsStated ==
    [][UpsertStep =>
           \A r \in Working : r.id = Bound.id =>
               \E r2 \in Working' :
                   /\ r2.id = r.id
                   /\ r2.bookmarked = r.bookmarked /\ r2.is_read = r.is_read
                   /\ SourceFields(r2) = SourceFields(Bound)]_vars

\* a bookmarked row was collected again with another title; the flag is still set
C1_Witness ==
    /\ pc = "commit" /\ txn.open
    /\ \E old \in items, r \in txn.rows :
           /\ old.id = r.id /\ old.bookmarked = 1 /\ r.bookmarked = 1
           /\ old.title # r.title
           /\ \E i \in 1..Len(data.arxiv_papers) :
                  data.arxiv_papers[i].id = r.id /\ data.arxiv_papers[i].title = r.title

----------------------------------------------------------------------------
(* C2  Idempotent upsert.  The items table never holds two rows with one   *)
(* id.  Upserting an item whose id is stored adds no row, and when the     *)
(* item is the stored one with another title the row carries that title;   *)
(* executing the same statement again changes nothing.                     *)

----------------------------------------------------------------------------
(* C3  Watermark after durable store.  As long as a cycle has not          *)
(* committed - it is still running, it raised, or the process stopped -    *)
(* every feed's last_item_id is the one from before the cycle.             *)

C3_WatermarkOnlyAfterCommit ==
    (InCycle \/ pc = "idle" \/ (pc = "done" /\ ~result.returned)) =>
        \A f \in FeedIds : Watermark(source_metadata, f) = Watermark(wmAtStart, f)

----------------------------------------------------------------------------
(* C4  At least once per feed.  Between cycles, every entry of a feed at   *)
(* or behind the feed's watermark entry is stored as an item: the          *)
(* watermark never moves past an entry that has not been stored.           *)

\* positions of the watermark entry in the feed
WatermarkPositions(f) ==
    {k \in 1..Len(feed[f]) : EntryId(feed[f][k]) = Watermark(source_metadata, f)}

C4_NoEntryBehindWatermarkIsLost ==
    pc \in {"idle", "done"} =>
        \A f \in FeedIds : \A w \in WatermarkPositions(f) : \A k \in w..Len(feed[f]) :
            BlogPost(feed[f][k]).id \in Ids(items)

----------------------------------------------------------------------------
(* C5  Watermark value after a pass.  A pass over a feed that runs to      *)
(* completion and finds the first entry of the feed ahead of the stored    *)
(* watermark sets the feed's last_item_id to the id (else the link) of     *)
(* that first entry; no pass changes the row of another feed.              *)

\* the step taken is a completed iteration of "for feed_info in feeds"
FeedPassStep == pc = "collect" /\ kidx = 4 /\ fidx \in 1..Len(config.feeds) /\ fidx' = fidx + 1

C5_WatermarkIsNewestEntry ==
    [][/\ FeedPassStep =>
            LET f == config.feeds[fidx]
            IN (feed[f] # << >> /\ EntryId(feed[f][1]) # Watermark(source_metadata, f)) =>
                   Watermark(source_metadata', f) = EntryId(feed[f][1])
       /\ \A g \in FeedIds :
              (pc = "collect" /\ kidx = 4 /\ fidx \in 1..Len(config.feeds)
                  /\ g # config.feeds[fidx]) =>
                  get_source_fetch_metadata(source_metadata', g)
                      = get_source_fetch_metadata(source_metadata, g)]_vars

\* the pass over F1 moved its watermark from the older entry to the new first entry
C5_Witness ==
    /\ pc = "collect" /\ kidx = 4 /\ fidx = 2
    /\ Len(feed["F1"]) >= 2
    /\ Watermark(wmAtStart, "F1") = EntryId(feed["F1"][2])
    /\ Watermark(source_metadata, "F1") = EntryId(feed["F1"][1])

----------------------------------------------------------------------------
(* C6  A failing entry is skipped, not the run.  What a collector hands    *)
(* to the cycle is the list of Items built from every entry whose          *)
(* conversion does not raise: only the failing entries are missing.        *)

RECURSIVE SelectGood(_)
SelectGood(xs) ==
    IF xs = << >> THEN << >>
    ELSE (IF Head(xs).bad THEN << >> ELSE << Head(xs) >>) \o SelectGood(Tail(xs))

\* the entries one pass over feed f takes, by the watermark the cycle started with
TakenEntries(f) ==
    CapEntries(ScanEntries(feed[f], 1, Watermark(wmAtStart, f),
                           [entries_to_process |-> << >>, newest |-> NoUrl]).entries_to_process,
               config.max_results, Len(config.feeds))

RECURSIVE GoodBlogPosts(_)
GoodBlogPosts(k) ==
    IF k > Len(config.feeds) THEN << >>
    ELSE MapSeq(BlogPost, SelectGood(TakenEntries(config.feeds[k]))) \o GoodBlogPosts(k + 1)

\* the Items of the entries of a kind that convert
ItemsOfGoodEntries(kind) ==
    CASE kind = "arxiv_papers" -> MapSeq(ArxivPaper, SelectGood(raw[kind].results))
      [] kind = "news_articles" -> MapSeq(NewsArticle, SelectGood(raw[kind].results))
      [] kind = "youtube_videos" ->
             MapSeq(YoutubeVideo, SelectGood(SelectRelevant(raw[kind].results)))
      [] OTHER -> IF config.company_blogs THEN GoodBlogPosts(1) ELSE << >>

KindSet == {Kinds[k] : k \in 1..Len(Kinds)}

C6_FailingEntryIsSkipped ==
    pc \in {"process", "upsert", "commit"} =>
        \A kind \in KindSet : data[kind] = ItemsOfGoodEntries(kind)

----------------------------------------------------------------------------
(* C7  Source isolation.  In a cycle whose store operations succeed, a     *)
(* kind whose collector failed contributes an empty batch and every other  *)
(* kind contributes all its items; each of them is upserted (stored, or    *)
(* skipped on a url collision) and the cycle returns status success.       *)

C7_SourceIsolation ==
    /\ pc \in {"process", "upsert", "commit"} =>
           \A kind \in KindSet :
               IF kind \in fault THEN data[kind] = << >>
               ELSE data[kind] = ItemsOfGoodEntries(kind)
    /\ pc = "commit" => AllStoredOrSkipped(Working)
    /\ (pc = "done" /\ result.returned) =>
           result.status = "success" /\ AllStoredOrSkipped(items)

\* the arxiv collector failed; the video of the same cycle is stored, status success
C7_Witness ==
    /\ pc = "done" /\ result.returned /\ result.status = "success"
    /\ "arxiv_papers" \in fault
    /\ data.youtube_videos # << >>
    /\ data.youtube_videos[1].id \in Ids(items)

----------------------------------------------------------------------------
(* C8  A refresh always returns a status.  Every refresh_data call that    *)
(* ends gives its caller {status, timestamp} with status success or error  *)
(* and the timestamp of the collection.                                    *)

C8_AlwaysReturnsStatus ==
    pc = "done" =>
        /\ result.returned
        /\ result.status \in {"success", "error"}
        /\ result.timestamp = data.timestamp

----------------------------------------------------------------------------
(* C9  A url collision skips one record.  An upsert whose url is stored    *)
(* under a different id changes no row and is logged, and the loop goes    *)
(* on with the next record; every other upsert stores its record and       *)
(* touches no other row; the loop reaches the commit with every record     *)
(* stored or skipped, and the commit publishes the rows.                   *)

C9_CollisionSkipsOneRecord ==
    /\ [][UpsertStep =>
              IF UrlCollision(Working, Bound)
              THEN /\ Working' = Working
                   /\ skipped' = skipped \cup {<< kidx, iidx >>}
                   /\ UNCHANGED <<batch, data, kidx>>
              ELSE /\ \E r \in Working' : SourceFields(r) = SourceFields(Bound)
                   /\ {r \in Working' : r.id # Bound.id} = {r \in Working : r.id # Bound.id}
                   /\ skipped' = skipped]_vars
    /\ [](pc = "commit" => AllStoredOrSkipped(Working))
    /\ [][(pc = "commit" /\ result'.returned) => items' = Working]_vars

\* the news record was skipped on the url of the stored video, the video after it is stored
C9_Witness ==
    /\ pc = "done" /\ result.returned
    /\ << 2, 1 >> \in skipped
    /\ data.youtube_videos # << >>
    /\ \E r \in items : r.id = "v1" /\ r.url = data.news_articles[1].url
    /\ data.news_articles[1].id \notin Ids(items)

----------------------------------------------------------------------------
(* C10  Batch enrichment contract.  batch_process returns as many items    *)
(* as it was given, the k-th with the id of the k-th input, and each       *)
(* with a non-empty categories list, a keywords list, an importance_score  *)
(* and a non-empty summary.                                                *)

Enriched(item) ==
    /\ {"categories", "keywords", "importance_score", "summary"} \subseteq DOMAIN item
    /\ item["categories"] # << >>
    /\ Truthy(item["summary"])

C10_BatchContract ==
    enPc = "returned" =>
        /\ Len(enOut) = Len(enIn)
        /\ \A k \in 1..Len(enOut) : enOut[k]["id"] = enIn[k]["id"] /\ Enriched(enOut[k])

----------------------------------------------------------------------------
(* C11  Default analysis values.  An item whose categorisation call ended  *)
(* in a transport error, a rate-limit signal or an answer without a JSON   *)
(* object comes back with categories = ["Uncategorized"],                  *)
(* importance_score = 3 and keywords = [].                                 *)

\* outcome of the categorisation call made for the k-th item
CategorizeAnswer(k) == enLog[k][1].answer

C11_DefaultAnalysisValues ==
    (enPc = "returned" /\ enKey) =>
        \A k \in 1..Len(enOut) :
            CategorizeAnswer(k) \in {"conn", "rate", "nojson"} =>
                /\ enOut[k]["categories"] = Uncategorized
                /\ enOut[k]["importance_score"] = 3
                /\ enOut[k]["keywords"] = << >>

----------------------------------------------------------------------------
(* C12  No-credential fallback.  Without an API key batch_process makes    *)
(* no remote call and no pause for any item, and each output is the input  *)
(* with categories = ["Uncategorized"], keywords = [], importance_score =  *)
(* 5 and summary = truncate_text(description, else abstract, 150): a       *)
(* function of the input alone.                                            *)

\* description, else abstract, else ''
SourceText(item) ==
    IF "description" \in DOMAIN item THEN item["description"]
    ELSE IF "abstract" \in DOMAIN item THEN item["abstract"] ELSE << >>

Analysis == {"categories", "keywords", "importance_score", "summary"}

C12_NoCredentialFallback ==
    (enPc = "returned" /\ ~enKey) =>
        /\ Len(enOut) = Len(enIn) /\ Len(enLog) = Len(enIn)
        /\ \A k \in 1..Len(enIn) :
               /\ enLog[k] = << >>
               /\ DOMAIN enOut[k] = DOMAIN enIn[k] \cup Analysis
               /\ \A f \in DOMAIN enIn[k] \ Analysis : enOut[k][f] = enIn[k][f]
               /\ enOut[k]["categories"] = Uncategorized
               /\ enOut[k]["keywords"] = << >>
               /\ enOut[k]["importance_score"] = 5
               /\ enOut[k]["summary"] = truncate_text(SourceText(enIn[k]), SummaryMaxLength)

\* no key: a paper with its own categories and an article with a long description
C12_Witness ==
    /\ enPc = "returned" /\ ~enKey /\ Len(enIn) = 2
    /\ enIn[1] = EnrichItems.paper /\ enOut[1]["categories"] = Uncategorized
    /\ enIn[2] = EnrichItems.long
    /\ enOut[2]["summary"] = Prefix(LongText, SummaryMaxLength) \o Ellipsis

----------------------------------------------------------------------------
(* C13  Rate-limit handling.  After a rate-limit signal on the             *)
(* categorisation call of an item there is one pause and nothing else: no  *)
(* further remote call for that item, and its summary is the plain         *)
(* truncation of its text.                                                 *)

C13_RateLimitHandling ==
    (enPc = "returned" /\ enKey) =>
        \A k \in 1..Len(enOut) :
            CategorizeAnswer(k) = "rate" =>
                /\ enLog[k] = << [op |-> "categorize", answer |-> "rate"], Pause >>
                /\ enOut[k]["summary"] =
                       truncate_text(ContentToAnalyze(enOut[k]), SummaryMaxLength)

----------------------------------------------------------------------------
(* Vocabulary of the read properties *)

Returned == {apiRows[k] : k \in 1..Len(apiRows)}

\* the call returned each row at most once
NoRepeat == \A i, j \in 1..Len(apiRows) : apiRows[i] = apiRows[j] => i = j

\* the whole result was asked for: first page, limit at least the store size
WholeResult == apiOp.offset = 0 /\ apiOp.limit >= Cardinality(items)

\* the instant a published text denotes: the first or the sixth of the month,
\* 0 for a row without a date
PublishedInstant(t) ==
    IF t \in {IsoOld, RfcOld} THEN 1 ELSE IF t \in {IsoNew, RfcNew} THEN 6 ELSE 0

\* a text of ASCII letters, digits and spaces
PlainText(t) ==
    \A k \in 1..Len(t) :
        \/ \E n \in 1..26 : t[k] = UpperCase[n] \/ t[k] = LowerCase[n]
        \/ \E n \in 1..10 : t[k] = Digits[n]
        \/ t[k] = " "

----------------------------------------------------------------------------
(* C14  Filter correctness.  get_data_by_type(T, {min_importance: m}) with *)
(* m in 1..10, offset 0 and a limit at least the store size returns        *)
(* exactly the stored rows with content_type = T and importance_score >=   *)
(* m, each once.                                                           *)

C14_FilterCorrectness ==
    (/\ apiOp.name = "get_data_by_type"
     /\ DOMAIN apiOp.filters = {"min_importance"}
     /\ apiOp.filters["min_importance"] \in 1..10
     /\ WholeResult) =>
        /\ Returned = {r \in items : /\ r.content_type = apiOp.content_type
                                     /\ r.importance_score >= apiOp.filters["min_importance"]}
        /\ NoRepeat

\* min_importance 7 on a store with a paper at 7, a paper at 5 and a blog post
C14_Witness ==
    /\ apiOp.name = "get_data_by_type" /\ apiOp.content_type = "paper"
    /\ apiOp.filters = Put(EmptyDict, "min_importance", 7) /\ WholeResult
    /\ \E r \in Returned : r.importance_score = 7
    /\ \E r \in items \ Returned : r.content_type = "paper" /\ r.importance_score = 5
    /\ \E r \in items \ Returned : r.content_type = "blog"

----------------------------------------------------------------------------
(* C15  Result ordering.  In every list returned by get_data_by_type,      *)
(* search_all_data and get_bookmarked_items an earlier row has a higher    *)
(* importance_score than a later one or, at equal scores, was published    *)
(* no earlier than the later one, whether the published text is ISO-8601   *)
(* or RFC 822.                                                             *)

C15_ResultOrdering ==
    apiOp.name \in {"get_data_by_type", "search_all_data", "get_bookmarked_items"} =>
        \A i, j \in 1..Len(apiRows) :
            i < j =>
                \/ apiRows[i].importance_score > apiRows[j].importance_score
                \/ /\ apiRows[i].importance_score = apiRows[j].importance_score
                   /\ (PublishedInstant(apiRows[i].published) # 0
                       /\ PublishedInstant(apiRows[j].published) # 0) =>
                          PublishedInstant(apiRows[i].published)
                              >= PublishedInstant(apiRows[j].published)

----------------------------------------------------------------------------
(* C16  Topic filter.  get_data_by_type(T, {topics: S}) with non-empty S   *)
(* of plain topic names (ASCII letters, digits, spaces), offset 0 and a    *)
(* limit at least the store size returns exactly the rows of type T whose  *)
(* categories list has an element equal to a member of S when the case of  *)
(* ASCII letters is ignored; a longer category containing the topic, or    *)
(* the topic among the keywords, does not count.                           *)

TopicsCall ==
    /\ apiOp.name = "get_data_by_type"
    /\ DOMAIN apiOp.filters = {"topics"}
    /\ apiOp.filters["topics"] # << >>
    /\ WholeResult

C16_TopicFilterIgnoringCase ==
    (/\ TopicsCall
     /\ \A k \in 1..Len(apiOp.filters["topics"]) : PlainText(apiOp.filters["topics"][k])) =>
        /\ Returned =
               {r \in items :
                    /\ r.content_type = apiOp.content_type
                    /\ \E c \in 1..Len(r.categories), k \in 1..Len(apiOp.filters["topics"]) :
                           SqlLower(r.categories[c]) = SqlLower(apiOp.filters["topics"][k])}
        /\ NoRepeat

\* as stated: an element equal to a member of S
C16_AsStated ==
    TopicsCall =>
        Returned =
            {r \in items :
                 /\ r.content_type = apiOp.content_type
                 /\ \E c \in 1..Len(r.categories), k \in 1..Len(apiOp.filters["topics"]) :
                        r.categories[c] = apiOp.filters["topics"][k]}

\* topic "Et": the paper in category "Et" is returned, the paper in category
\* "AI Et" with keyword "Et" is not
C16_Witness ==
    /\ TopicsCall /\ apiOp.content_type = "paper" /\ apiOp.filters["topics"] = << Et >>
    /\ \E r \in Returned : r.categories = << Et >>
    /\ \E r \in items \ Returned : r.categories = << AiEt >> /\ r.keywords = << Et >>

----------------------------------------------------------------------------
(* C17  Search coverage.  search_all_data(q) with offset 0 and a limit at  *)
(* least the store size returns exactly the rows for which the lower-cased *)
(* q is a substring of the lower-cased title, description, summary, of a   *)
(* keyword or of a category, and which pass the min_importance and sources *)
(* filters supplied.                                                       *)

\* a occurs in b
IsSubstring(a, b) ==
    \E k \in 0..(Len(b) - Len(a)) : SubSeq(b, k + 1, k + Len(a)) = a

\* q occurs in one of the five fields, letter case ignored
FieldsContain(r, q) ==
    LET In(text) == text # NoneText /\ IsSubstring(PyLower(q), PyLower(text))
    IN \/ In(r.title) \/ In(r.description) \/ In(r.summary)
       \/ \E k \in 1..Len(r.keywords) : In(r.keywords[k])
       \/ \E k \in 1..Len(r.categories) : In(r.categories[k])

PassesSearchFilters(r, filters) ==
    /\ "min_importance" \in DOMAIN filters => r.importance_score >= filters["min_importance"]
    /\ "sources" \in DOMAIN filters =>
           \E k \in 1..Len(filters["sources"]) : r.source_type = filters["sources"][k]

C17_SearchCoverage ==
    (apiOp.name = "search_all_data" /\ WholeResult) =>
        Returned = {r \in items : /\ FieldsContain(r, apiOp.search_query)
                                  /\ PassesSearchFilters(r, apiOp.filters)}

----------------------------------------------------------------------------
(* C18  Pagination boundary.  With N items of the type matching the        *)
(* filters, page size L and page p, the paginated fetch shows              *)
(* min(L, max(0, N - p*L)) items and signals more exactly when             *)
(* N > (p+1)*L.                                                            *)

Max(a, b) == IF a > b THEN a ELSE b

\* the number of stored items of the type that pass the sidebar filters
Matching(data_type, sidebar) ==
    Len(apply_filters(get_data_by_type(Table, data_type, Cardinality(items) + 1, 0,
                                       SidebarDbFilters(sidebar)),
                      sidebar))

C18_PaginationBoundary ==
    apiOp.name = "get_paginated_data" =>
        LET N == Matching(apiOp.data_type, apiOp.sidebar)
            L == apiOp.items_per_page
            p == apiOp.current_page
        IN /\ Len(apiRows) = Min(L, Max(0, N - p * L))
           /\ apiFlag <=> N > (p + 1) * L

----------------------------------------------------------------------------
(* C19  Flag update.  update_item_flags(id, bookmarked?, is_read?) sets    *)
(* the supplied flags of the row with that id and changes nothing else:    *)
(* not the other flag, not another column, not another row, not a          *)
(* watermark; for an unknown id nothing changes.  It returns true exactly  *)
(* when at least one flag is supplied and a row with that id exists.       *)

\* a step that is a call of update_item_flags
FlagCall == apiOp' # apiOp /\ apiOp'.name = "update_item_flags"

FlagsOnlyChange ==
    LET id == apiOp'.item_id
        Set(old, new, v) == /\ v = "None" => new = old
                            /\ v = "True" => new = 1
                            /\ v = "False" => new = 0
    IN /\ source_metadata' = source_metadata
       /\ {r.id : r \in items'} = {r.id : r \in items}
       /\ Cardinality(items') = Cardinality(items)
       /\ \A r \in items : r.id # id => r \in items'
       /\ \A r \in items :
              r.id = id =>
                  \E r2 \in items' :
                      /\ \A f \in DOMAIN r \ {"bookmarked", "is_read"} : r2[f] = r[f]
                      /\ Set(r.bookmarked, r2.bookmarked, apiOp'.bookmarked)
                      /\ Set(r.is_read, r2.is_read, apiOp'.is_read)

C19_FlagUpdate ==
    [][FlagCall =>
           /\ FlagsOnlyChange
           /\ apiFlag' <=> /\ apiOp'.bookmarked # "None" \/ apiOp'.is_read # "None"
                           /\ \E r \in items : r.id = apiOp'.item_id]_vars

\* as stated: true exactly when a row with that id exists
C19_AsStated ==
    [][FlagCall =>
           /\ FlagsOnlyChange
           /\ apiFlag' <=> \E r \in items : r.id = apiOp'.item_id]_vars

\* bookmarking the read paper p1 in a store that also holds b1 and a watermark
C19_Witness ==
    /\ apiOp = [name |-> "update_item_flags", item_id |-> "p1",
                bookmarked |-> "True", is_read |-> "None"]
    /\ apiFlag
    /\ \E r \in items : r.id = "p1" /\ r.bookmarked = 1 /\ r.is_read = 1
    /\ \E r \in items : r.id = "b1" /\ r.bookmarked = 0
    /\ source_metadata = {StoredWatermark}

----------------------------------------------------------------------------
(* C20  Watermark store.  update_source_fetch_metadata(s, t, e) leaves     *)
(* exactly one record for s, holding t and e, and leaves the records of    *)
(* the other sources alone; get_source_fetch_metadata(s) returns the       *)
(* record of s, or None when the table has none, and changes nothing.      *)

WatermarkUpdated ==
    (apiOp' # apiOp /\ apiOp'.name = "update_source_fetch_metadata") =>
        LET s == apiOp'.source_id
        IN /\ {m \in source_metadata' : m.source_id = s} =
                  {[source_id |-> s,
                    last_successful_fetch |-> apiOp'.last_successful_fetch,
                    last_item_id |-> apiOp'.last_item_id]}
           /\ {m \in source_metadata' : m.source_id # s} =
                  {m \in source_metadata : m.source_id # s}

WatermarkRead ==
    (apiOp' # apiOp /\ apiOp'.name = "get_source_fetch_metadata") =>
        LET s == apiOp'.source_id
        IN /\ source_metadata' = source_metadata
           /\ IF \E m \in source_metadata : m.source_id = s
              THEN apiMeta' \in source_metadata /\ apiMeta'.source_id = s
              ELSE apiMeta' = NoMetadata

C20_WatermarkStore == [][WatermarkUpdated /\ WatermarkRead]_vars

\* the record of F1 read back after its second update, beside a record of F2
C20_Witness ==
    /\ apiOp = [name |-> "get_source_fetch_metadata", source_id |-> "F1"]
    /\ apiMeta = [source_id |-> "F1", last_successful_fetch |-> 2, last_item_id |-> << "e2" >>]
    /\ \E m \in source_metadata : m.source_id = "F2"
    /\ Cardinality(source_metadata) = 2

----------------------------------------------------------------------------
(* C21  Single in-flight refresh.  At no time are two callers inside       *)
(* refresh_data: while one cycle is collecting or upserting, no other      *)
(* caller (interval job, initial refresh, refresh button, command line)    *)
(* has started collecting or upserting.                                    *)

InFlight == {c \in Callers : inflight[c].at # "idle"}

C21_SingleInFlightRefresh == Cardinality(InFlight) <= 1

----------------------------------------------------------------------------
(* C22  Order independence of persistence.  Whatever the order in which    *)
(* the source kinds, and the items inside a batch, are upserted, the       *)
(* items table ends with the same rows as in the order the loop uses,      *)
(* also when two collected items share an id or a url.                     *)

C22_OrderIndependence ==
    fnOut.name = "upsert_loop" =>
        fnOut.tbl = UpsertAll(items, fnIn.news_articles \o fnIn.blog_posts)

----------------------------------------------------------------------------
(* C23  Items are never deleted.  Through every step of refresh_data,      *)
(* update_item_flags and update_source_fetch_metadata an id stored in the  *)
(* items table stays stored: the set of committed ids only grows, and no   *)
(* INSERT of the loop removes an id from the rows of its transaction.      *)

C23_IdsOnlyGrow ==
    [][/\ Ids(items) \subseteq Ids(items')
       /\ UpsertStep => Ids(Working) \subseteq Ids(Working')]_vars

\* a second cycle has committed over a store whose flags were set meanwhile
C23_Witness ==
    /\ pc = "done" /\ result.returned /\ clock = 2 /\ flagOps = 1
    /\ Cardinality(Ids(items)) >= 2
    /\ \E r \in items : r.bookmarked = 1

----------------------------------------------------------------------------
(* C24  truncate_text(text, n) returns a text of at most n characters      *)
(* unchanged, a longer one as its first n characters followed by "..."     *)
(* (n + 3 characters), '' for '' and '' for None.                          *)

C24_TruncateText ==
    fnOut.name = "truncate_text" =>
        LET text == fnIn.text
            n == fnIn.max_length
        IN IF text = NoneText THEN fnOut.value = << >>
           ELSE IF Len(text) <= n THEN fnOut.value = text
           ELSE /\ fnOut.value = SubSeq(text, 1, n) \o << ".", ".", "." >>
                /\ Len(fnOut.value) = n + 3

----------------------------------------------------------------------------
(* C25  Source gating in collect_all_data.  The result has the keys        *)
(* timestamp, arxiv_papers, news_articles, youtube_videos and blog_posts.  *)
(* The collector of a kind is called once in a cycle when the kind is      *)
(* enabled (news and youtube: and the API key is present) and its list is  *)
(* what the collector returned; otherwise it is not called and the list    *)
(* of the kind is empty.                                                   *)

\* the kinds whose collector answers in one step
ApiKinds == {1, 2, 3}

\* the step in which collect_all_data passes the "if" of the k-th kind
Gate(k) ==
    /\ pc = "collect" /\ kidx = k /\ (k = 4 => fidx = 0)
    /\ IF k = 4 THEN fidx' = 1 \/ pc' = "process" ELSE kidx' = k + 1

\* the collector of the k-th kind was called with some upstream response
Called(k) ==
    LET kind == Kinds[k]
        Out(resp) == CASE k = 1 -> collect_arxiv_papers(resp)
                       [] k = 2 -> collect_news_articles(resp)
                       [] k = 3 -> collect_youtube_videos(resp)
        Responses == CASE k = 1 -> ArxivResponses
                       [] k = 2 -> NewsResponses
                       [] k = 3 -> YoutubeResponses
    IN \E resp \in Responses : raw'[kind] = resp /\ data'[kind] = Out(resp).list

\* the k-th kind was passed over
NotCalled(k) ==
    /\ data'[Kinds[k]] = << >>
    /\ k \in ApiKinds => raw' = raw
    /\ k = 4 => (pc' = "process" /\ source_metadata' = source_metadata /\ fidx' = 0)

C25_SourceGating ==
    /\ [](DOMAIN data = {"timestamp", "arxiv_papers", "news_articles", "youtube_videos",
                         "blog_posts"})
    /\ [][\A k \in 1..4 :
              Gate(k) =>
                  IF (k = 1 /\ config.arxiv)
                     \/ (k = 2 /\ config.news /\ config.news_api_key)
                     \/ (k = 3 /\ config.youtube /\ config.youtube_api_key)
                     \/ (k = 4 /\ config.company_blogs)
                  THEN IF k = 4 THEN pc' = "collect" /\ fidx' = 1 ELSE Called(k)
                  ELSE NotCalled(k)]_vars
    /\ [][(pc = "collect" /\ pc' = "collect") => kidx' \in {kidx, kidx + 1}]_vars

\* news enabled without its key and arxiv disabled: both lists empty beside
\* the videos and posts collected
C25_Witness ==
    /\ pc = "process" /\ kidx = 1
    /\ config.news /\ ~config.news_api_key /\ ~config.arxiv
    /\ data.news_articles = << >> /\ data.arxiv_papers = << >>
    /\ data.youtube_videos # << >> /\ data.blog_posts # << >>

----------------------------------------------------------------------------
(* C26  Incremental scan of a feed.  The entries one pass turns into       *)
(* Items are the first min(k, cap) entries of the feed in feed order,      *)
(* where k counts the entries before the first one whose id (its link,     *)
(* when it has no id) is the stored last_item_id, k is the length of the   *)
(* feed when nothing is stored or no entry carries the stored id, and cap  *)
(* is max_results // number of feeds.                                      *)

\* positions of the entries whose id, else link, is the stored last_item_id
WatermarkEntries(entries, metadata) ==
    {k \in 1..Len(entries) :
         /\ metadata # NoMetadata
         /\ \/ "id" \in DOMAIN entries[k] /\ entries[k]["id"] = metadata.last_item_id
            \/ /\ "id" \notin DOMAIN entries[k] /\ "link" \in DOMAIN entries[k]
               /\ entries[k]["link"] = metadata.last_item_id}

AheadOfWatermark(entries, metadata) ==
    LET w == WatermarkEntries(entries, metadata)
    IN IF w = {} THEN Len(entries) ELSE (CHOOSE k \in w : \A j \in w : k <= j) - 1

C26_IncrementalScan ==
    fnOut.name = "feed_pass" =>
        LET k == AheadOfWatermark(fnIn.entries, fnIn.metadata)
            cap == fnIn.max_results \div fnIn.nfeeds
        IN fnOut.pass.posts = MapSeq(BlogPost, SubSeq(fnIn.entries, 1, Min(k, cap)))

----------------------------------------------------------------------------
(* C27  last_successful_fetch tracks the most recent completed pass.       *)
(* After every pass of collect_company_blogs over a feed that runs to      *)
(* completion, the time stored for the feed is the time of that pass, also *)
(* when the pass finds no entry ahead of the watermark.                    *)
C27_FetchTimeTracksPass ==
    [][FeedPassStep =>
           get_source_fetch_metadata(source_metadata', config.feeds[fidx]).last_successful_fetch
               = clock]_vars

----------------------------------------------------------------------------
(* C28  Importance range.  Every item batch_process returns, and so every  *)
(* row refresh_data builds from it, has an integer importance_score in     *)
(* 1..10, whatever importance_score the LLM response carries.              *)
C28_ImportanceRange ==
    enPc = "returned" =>
        \A k \in 1..Len(enOut) :
            /\ "importance_score" \in DOMAIN enOut[k]
            /\ enOut[k]["importance_score"] \in 1..10
            /\ _item_to_db_format(enOut[k], "news_articles", "news").importance_score \in 1..10

----------------------------------------------------------------------------
(* C29  Distinct entries get distinct ids.  Two items collected in one     *)
(* cycle under different urls never carry the same id, also when the urls  *)
(* end in '/' or share their last path segment.                            *)
C29_DistinctIds ==
    fnOut.name = "collect_ids" =>
        LET collected == fnOut.news_articles \o fnOut.blog_posts
        IN \A i, j \in 1..Len(collected) :
               collected[i].url # collected[j].url => collected[i].id # collected[j].id

----------------------------------------------------------------------------
(* C30  Cycle-atomic persistence.  What a reader on another connection     *)
(* sees of the items table changes during a cycle only at its commit,      *)
(* where every upsert of the cycle, of all kinds, becomes visible at once; *)
(* a cycle that stops before the commit, or whose commit fails, leaves     *)
(* the table as it was.  (A flag update from the dashboard is no part of   *)
(* the cycle and waits for the write lock.)                                *)
Seen == ReadCommitted(items, txn)

CommitStep == pc = "commit" /\ pc' = "done" /\ result'.status = "success"

Interrupted ==
    pc \in {"collect", "process", "upsert", "commit"} /\ ~CommitStep /\ pc' \in {"idle", "done"}

C30_CycleAtomic ==
    [][/\ Seen' # Seen => CommitStep \/ flagOps' # flagOps
       /\ CommitStep => Seen' = Working
       /\ UpsertStep => Seen' = Seen
       /\ Interrupted => Seen' = Seen]_vars

\* two rows of different kinds wait for the commit, unseen by readers
C30_Witness ==
    /\ pc = "commit" /\ txn.open
    /\ \E r1, r2 \in txn.rows \ Seen :
           r1.content_type # r2.content_type /\ {r1.id, r2.id} \cap Ids(Seen) = {}

====
